---- MODULE Spec2Model ----
(***************************************************************************)
(* Landing Gear Control System: the controller state machine of            *)
(* src/landing_gear_controller.py with its sensor fusion, safety           *)
(* interlocks and timing instrumentation.                                  *)
(*                                                                         *)
(* Representation.                                                         *)
(*  - Time is an integer number of milliseconds: a quantity the code holds *)
(*    in seconds (a float) is held here in milliseconds.  Float rounding   *)
(*    is not modelled: arithmetic is exact.                                *)
(*  - The clock is read by update() and by the commands; its reading       *)
(*    changes only between operations (the tests' FakeClock), by the dt    *)
(*    of the next tick, which may be negative.                             *)
(*  - A Python Optional is a sequence of length 0 (None) or 1.             *)
(*  - A float that may be non-finite is a record [k, v] with k one of      *)
(*    "fin", "nan", "pinf", "ninf"; a sensor position is in hundredths of  *)
(*    full travel, an altitude in feet.                                    *)
(*  - The controller object is the record ctl, one field per attribute of  *)
(*    the class (without the leading underscore); the methods are          *)
(*    operators from a controller record to a controller record.  The      *)
(*    attributes that are written and never read back by any method or     *)
(*    query (_deploy_transition_ts, _retract_cmd_ts, _retract_transition_ts*)
(*    and _retract_actuation_ts) are left out.                             *)
(***************************************************************************)
EXTENDS Integers, Sequences, FiniteSets, TLC

VARIABLES
    ctl,    \* the LandingGearController object
    clock,  \* the reading of the injected clock, in units
    env,    \* what the injected providers return when called
    ev      \* the last operation called on the controller and its result

vars == <<ctl, clock, env, ev>>

-----------------------------------------------------------------------------
(* Bounds of the model *)

\* Largest clock reading explored, in steps of 50 ms.
MaxTime == 6
\* Largest clock reading explored by the command specification, in steps
\* of 50 ms.
MaxCommandTime == 4
\* Largest clock reading explored by the sensor specifications, in steps
\* of 50 ms.
MaxSensorTime == 14
\* Largest clock reading explored by the RESET specification, in steps of
\* 50 ms.
MaxResetTime == 2
\* Most entries explored in each cadence-violation list.
\* Horizon of the fault-sink specification, in steps of 50 ms.
MaxSinkTime == 40
MaxViolations == 2

-----------------------------------------------------------------------------
(* Values *)

None == <<>>
Some(x) == <<x>>
Val(o) == o[1]

Fin(v) == [k |-> "fin", v |-> v]
NaN == [k |-> "nan", v |-> 0]
PosInf == [k |-> "pinf", v |-> 0]
NegInf == [k |-> "ninf", v |-> 0]
\* The provider attribute is None.
Unwired == [k |-> "unwired", v |-> 0]
\* The provider is wired and returns None.
NoReading == [k |-> "none", v |-> 0]

isfinite(x) == x.k = "fin"
\* x < n and x >= n as IEEE comparison decides them (false for NaN).
FloatLt(x, n) == (x.k = "fin" /\ x.v < n) \/ x.k = "ninf"
FloatGe(x, n) == (x.k = "fin" /\ x.v >= n) \/ x.k = "pinf"

RESET == "RESET"
UP_LOCKED == "UP_LOCKED"
TRANSITIONING_DOWN == "TRANSITIONING_DOWN"
DOWN_LOCKED == "DOWN_LOCKED"
TRANSITIONING_UP == "TRANSITIONING_UP"
FAULT == "FAULT"
ABNORMAL == "ABNORMAL"
GearState == {RESET, UP_LOCKED, TRANSITIONING_DOWN, DOWN_LOCKED,
              TRANSITIONING_UP, FAULT, ABNORMAL}

OK == "OK"
FAILED == "FAILED"
PositionSensorReading(status, position_norm) ==
    [status |-> status, position_norm |-> position_norm]

FTHR001 == "FTHR001_SINGLE_SENSOR_FAILURE"
MULTI == "MULTIPLE_SENSOR_FAILURE"
FTHR002 == "FTHR002_SENSOR_CONFLICT_PERSISTENT"
FaultCodes == {FTHR001, MULTI, FTHR002}

-----------------------------------------------------------------------------
(* Program constants *)

\* _sensor_conflict_tolerance_norm = 0.20, in hundredths of travel
SensorConflictToleranceNorm == 20
\* _fault_classification_latency_threshold_s = 0.5, in ms
FaultClassificationLatencyThresholdMs == 500
\* _pr002_transition_max_dt_s = 0.1, in ms
Pr002TransitionMaxDtMs == 100
\* _pr003_steady_max_dt_s = 0.25, in ms
Pr003SteadyMaxDtMs == 250
\* SR001: auto-deploy below 1000.0 ft
AutoDeployAltitudeFt == 1000
\* SR002: warning below 2000.0 ft
LowAltitudeWarningFt == 2000
\* FTHR004: avg_pos <= 0.1 is UP_LOCKED, in hundredths
ResetUpMaxNorm == 10
\* FTHR004: avg_pos >= 0.9 is DOWN_LOCKED, in hundredths
ResetDownMinNorm == 90

-----------------------------------------------------------------------------
(* GearConfiguration *)

GearConfiguration(pump, speed, extension, lock) ==
    [pump_latency_ms |-> pump, actuator_speed_mm_per_100ms |-> speed,
     extension_distance_mm |-> extension, lock_time_ms |-> lock]

\* A mutant of compute_deploy_time_ms: the speed is taken as mm per ms.
compute_deploy_time_ms_speed_per_ms(cfg) ==
    cfg.pump_latency_ms
      + cfg.extension_distance_mm \div cfg.actuator_speed_mm_per_100ms
      + cfg.lock_time_ms

\* extension_distance_mm / actuator_speed_mm_per_ms divides by zero.
RaisesZeroDivisionError(cfg) == cfg.actuator_speed_mm_per_100ms = 0

\* pump + extension / (speed / 100) + lock, for the configurations whose
\* quotient is a whole number of milliseconds.
compute_deploy_time_ms(cfg) ==
    cfg.pump_latency_ms
      + (cfg.extension_distance_mm * 100) \div cfg.actuator_speed_mm_per_100ms
      + cfg.lock_time_ms

\* The tests' configuration (100 ms) and a slower one (150 ms).
TestConfig == GearConfiguration(0, 100, 100, 0)

-----------------------------------------------------------------------------
(* LandingGearController *)

\* __init__: the object after construction at clock reading now.
NewController(cfg, has_sensors, has_recorder, now) ==
    [ config |-> cfg,
      state |-> IF has_sensors THEN RESET ELSE UP_LOCKED,
      reset_validated |-> ~has_sensors,
      position_sensors_provider |-> has_sensors,
      state_entered_at |-> now,
      auto_deploy_latched |-> FALSE,
      low_alt_warning_active |-> FALSE,
      weight_on_wheels |-> FALSE,
      deploy_cmd_ts |-> None,
      deploy_actuation_ts |-> None,
      deploy_time_ms |-> compute_deploy_time_ms(cfg),
      deploy_actuation_stamp_armed |-> FALSE,
      deploy_requested |-> FALSE,
      retract_requested |-> FALSE,
      sr004_power_loss_latched |-> FALSE,
      maintenance_fault_active |-> FALSE,
      maintenance_fault_codes |-> {},
      position_estimate_norm |-> None,
      fault_recorder |-> has_recorder,
      recorded_fault_codes |-> {},
      sensor_conflict_started_at |-> None,
      sensor_conflict_fault_latched |-> FALSE,
      fault_occurrence_ts |-> [code \in FaultCodes |-> None],
      fault_classified_ts |-> [code \in FaultCodes |-> None],
      last_gear_down_cmd |-> None,
      last_gear_up_cmd |-> None,
      deploy_latency_ms_latched |-> None,
      last_update_ts |-> None,
      transition_dt_violations_s |-> <<>>,
      steady_dt_violations_s |-> <<>>,
      \* Observations of the current operation, emptied when one starts:
      \* the interlocks that called command_gear_down, the advisory lines
      \* logged, and every fault code handed to the recorder so far.
      issued |-> {},
      warned |-> FALSE,
      sink |-> <<>> ]

\* The actuator outputs: the last value handed to _actuate_down/_actuate_up.
DownAsserted(c) == c.last_gear_down_cmd = Some(TRUE)
UpAsserted(c) == c.last_gear_up_cmd = Some(TRUE)

\* A mutant of weight_on_wheels: the accessor always answers False.
weight_on_wheels_always_false(c) == FALSE

weight_on_wheels(c) == c.weight_on_wheels

down_requested(c) == c.deploy_requested
up_requested(c) == c.retract_requested

\* A mutant of primary_power_absent: an unwired provider counts as absent.
primary_power_absent_when_unwired(e) == e.power # "present"

\* command_gear_up's SR004 test: a provider is wired and reports no power.
primary_power_absent(e) == e.power = "absent"

\* A mutant of TransitionComplete: the boundary is exclusive.
TransitionCompleteStrictly(elapsed_ms, deploy_time_ms) == elapsed_ms > deploy_time_ms

\* A mutant of TransitionComplete: twice the deploy time is waited for.
TransitionCompleteAfterTwice(elapsed_ms, deploy_time_ms) ==
    elapsed_ms >= 2 * deploy_time_ms

\* update()'s completion test: elapsed_s >= self._deploy_time_s.
TransitionComplete(elapsed_ms, deploy_time_ms) == elapsed_ms >= deploy_time_ms

\* A mutant of ConflictPersisted: the boundary is inclusive.
ConflictPersistedInclusive(persisted_ms) ==
    persisted_ms >= FaultClassificationLatencyThresholdMs

\* FTHR002's persistence test: persisted_s > persistence_s.
ConflictPersisted(persisted_ms) ==
    persisted_ms > FaultClassificationLatencyThresholdMs

\* A mutant of AutoDeployAltitudeReached: the boundary is exclusive.
AutoDeployAltitudeExceeded(altitude_ft) ==
    (altitude_ft.k = "fin" /\ altitude_ft.v > AutoDeployAltitudeFt)
        \/ altitude_ft.k = "pinf"

\* SR001's altitude test: altitude_ft >= 1000.0.
AutoDeployAltitudeReached(altitude_ft) == FloatGe(altitude_ft, AutoDeployAltitudeFt)

enter_state(c, new_state, now) ==
    [c EXCEPT !.state = new_state, !.state_entered_at = now]

\* A mutant of pr004_classify_fault: the latest timestamps are kept.
pr004_classify_fault_last_write_wins(c, fault_code, occurrence_ts, now) ==
    [c EXCEPT !.fault_occurrence_ts[fault_code] = Some(occurrence_ts),
              !.fault_classified_ts[fault_code] = Some(now)]

\* Occurrence and classification timestamps, each written once per code.
pr004_classify_fault(c, fault_code, occurrence_ts, now) ==
    LET c1 == IF c.fault_occurrence_ts[fault_code] = None
              THEN [c EXCEPT !.fault_occurrence_ts[fault_code] = Some(occurrence_ts)]
              ELSE c
    IN IF c1.fault_classified_ts[fault_code] = None
       THEN [c1 EXCEPT !.fault_classified_ts[fault_code] = Some(now)]
       ELSE c1

\* A mutant of record_fault: the recorder is called without consulting the
\* codes already recorded.
record_fault_every_time(c, fault_code) ==
    IF ~c.fault_recorder THEN c
    ELSE [c EXCEPT !.sink = Append(@, fault_code),
                   !.recorded_fault_codes = @ \cup {fault_code}]

record_fault(c, fault_code) ==
    IF ~c.fault_recorder THEN c
    ELSE IF fault_code \in c.recorded_fault_codes THEN c
    ELSE [c EXCEPT !.sink = Append(@, fault_code),
                   !.recorded_fault_codes = @ \cup {fault_code}]

\* A mutant of actuate_down: the output is energised whatever is asked.
actuate_down_always_on(c, enabled, now) ==
    [c EXCEPT !.last_gear_down_cmd = Some(TRUE)]

actuate_down(c, enabled, now) ==
    LET c1 == IF /\ enabled
                 /\ c.deploy_cmd_ts # None
                 /\ c.deploy_actuation_ts = None
                 /\ c.deploy_actuation_stamp_armed
              THEN [c EXCEPT !.deploy_actuation_ts = Some(now),
                             !.deploy_actuation_stamp_armed = FALSE]
              ELSE c
        c2 == IF /\ c1.deploy_latency_ms_latched = None
                 /\ c1.deploy_cmd_ts # None
                 /\ c1.deploy_actuation_ts # None
              THEN [c1 EXCEPT !.deploy_latency_ms_latched =
                      Some(Val(c1.deploy_actuation_ts) - Val(c1.deploy_cmd_ts))]
              ELSE c1
    IN [c2 EXCEPT !.last_gear_down_cmd = Some(enabled)]

actuate_up(c, enabled, now) ==
    [c EXCEPT !.last_gear_up_cmd = Some(enabled)]

Result(c, ret) == [c |-> c, ret |-> ret]

\* The accepted branch of command_gear_down(True).
StartDeploy(c, now) ==
    LET c1 == [c EXCEPT !.deploy_requested = FALSE,
                        !.deploy_cmd_ts = Some(now),
                        !.deploy_actuation_ts = None]
        c2 == actuate_down(c1, TRUE, now)
        c3 == [c2 EXCEPT !.deploy_actuation_stamp_armed = TRUE]
    IN enter_state(c3, TRANSITIONING_DOWN, now)

\* A mutant of command_gear_down: the origin state is not checked, only
\* FAULT, ABNORMAL and RESET reject.
command_gear_down_from_any_state(c, enabled, now) ==
    IF enabled THEN
        IF c.state \in {FAULT, ABNORMAL} THEN Result(c, FALSE)
        ELSE IF c.state = RESET THEN Result(c, FALSE)
        ELSE Result(StartDeploy(c, now), TRUE)
    ELSE IF c.state = TRANSITIONING_DOWN
         THEN Result(enter_state(actuate_down(c, FALSE, now), DOWN_LOCKED, now), TRUE)
         ELSE Result(actuate_down(c, FALSE, now), FALSE)

\* A mutant of command_gear_down: a deploy rejected for the state is queued.
command_gear_down_queueing(c, enabled, now) ==
    IF enabled THEN
        IF c.state \in {FAULT, ABNORMAL} THEN Result(c, FALSE)
        ELSE IF c.state # UP_LOCKED
             THEN Result([c EXCEPT !.deploy_requested = TRUE], FALSE)
        ELSE Result(StartDeploy(c, now), TRUE)
    ELSE IF c.state = TRANSITIONING_DOWN
         THEN Result(enter_state(actuate_down(c, FALSE, now), DOWN_LOCKED, now), TRUE)
         ELSE Result(actuate_down(c, FALSE, now), FALSE)

command_gear_down(c, enabled, now) ==
    IF enabled THEN
        IF c.state \in {FAULT, ABNORMAL} THEN Result(c, FALSE)
        ELSE IF c.state = RESET THEN Result(c, FALSE)
        ELSE IF c.state # UP_LOCKED THEN Result(c, FALSE)
        ELSE Result(StartDeploy(c, now), TRUE)
    ELSE IF c.state = TRANSITIONING_DOWN
         THEN Result(enter_state(actuate_down(c, FALSE, now), DOWN_LOCKED, now), TRUE)
         ELSE Result(actuate_down(c, FALSE, now), FALSE)

\* A mutant of command_gear_up: the power provider is not consulted.
command_gear_up_ignoring_power(c, enabled, now, e) ==
    IF enabled THEN
        IF c.state \in {FAULT, ABNORMAL} THEN Result(c, FALSE)
        ELSE IF c.state = RESET THEN Result(c, FALSE)
        ELSE IF c.state # DOWN_LOCKED THEN Result(c, FALSE)
        ELSE IF weight_on_wheels(c) THEN Result(c, FALSE)
        ELSE LET c1 == [c EXCEPT !.retract_requested = FALSE]
                 c2 == actuate_up(c1, TRUE, now)
             IN Result(enter_state(c2, TRANSITIONING_UP, now), TRUE)
    ELSE IF c.state = TRANSITIONING_UP
         THEN Result(enter_state(actuate_up(c, FALSE, now), UP_LOCKED, now), TRUE)
         ELSE Result(actuate_up(c, FALSE, now), FALSE)

\* A mutant of command_gear_up: a release completes a retraction from
\* whatever state the controller is in.
command_gear_up_release_unlocks(c, enabled, now, e) ==
    IF enabled THEN Result(c, FALSE)
    ELSE Result(enter_state(actuate_up(c, FALSE, now), UP_LOCKED, now), TRUE)

command_gear_up(c, enabled, now, e) ==
    IF enabled THEN
        IF primary_power_absent(e) THEN Result(c, FALSE)
        ELSE IF c.state \in {FAULT, ABNORMAL} THEN Result(c, FALSE)
        ELSE IF c.state = RESET THEN Result(c, FALSE)
        ELSE IF c.state # DOWN_LOCKED THEN Result(c, FALSE)
        ELSE IF weight_on_wheels(c) THEN Result(c, FALSE)
        ELSE LET c1 == [c EXCEPT !.retract_requested = FALSE]
                 c2 == actuate_up(c1, TRUE, now)
             IN Result(enter_state(c2, TRANSITIONING_UP, now), TRUE)
    ELSE IF c.state = TRANSITIONING_UP
         THEN Result(enter_state(actuate_up(c, FALSE, now), UP_LOCKED, now), TRUE)
         ELSE Result(actuate_up(c, FALSE, now), FALSE)

-----------------------------------------------------------------------------
(* Sensor fusion and fault detection *)

\* A mutant of IsValidReading: the status alone decides, a non-finite
\* position of an OK sensor counts as valid.
IsValidReadingByStatus(r) == r.status = OK

IsValidReading(r) == r.status = OK /\ isfinite(r.position_norm)

\* A mutant of ValidReadings: no reading is filtered out.
AllReadings(readings) == readings

ValidReadings(readings) == SelectSeq(readings, IsValidReading)

RECURSIVE SumPositions(_)
SumPositions(readings) ==
    IF readings = <<>> THEN 0
    ELSE Head(readings).position_norm.v + SumPositions(Tail(readings))

RECURSIVE MaxPosition(_)
MaxPosition(readings) ==
    IF Len(readings) = 1 THEN readings[1].position_norm.v
    ELSE LET m == MaxPosition(Tail(readings))
             h == Head(readings).position_norm.v
         IN IF h > m THEN h ELSE m

RECURSIVE MinPosition(_)
MinPosition(readings) ==
    IF Len(readings) = 1 THEN readings[1].position_norm.v
    ELSE LET m == MinPosition(Tail(readings))
             h == Head(readings).position_norm.v
         IN IF h < m THEN h ELSE m

\* sum(...) / len(...) as the exact fraction num/den (den > 0).
Average(readings) == [num |-> SumPositions(readings), den |-> Len(readings)]

Estimate(c, est) == [c |-> c, est |-> est]

\* A mutant of apply_fthr001_single_sensor_failure_handling: the
\* maintenance codes are dropped when every sensor is healthy again.
apply_fthr001_clearing_on_recovery(c, now, e) ==
    IF ~c.position_sensors_provider THEN Estimate(c, None)
    ELSE IF e.readings = <<>> THEN Estimate(c, None)
    ELSE
      LET valid == ValidReadings(e.readings)
          failed_count == Len(e.readings) - Len(valid)
      IN IF failed_count = 0
         THEN Estimate([c EXCEPT !.maintenance_fault_active = FALSE,
                                 !.maintenance_fault_codes = {}],
                       Some(Average(e.readings)))
         ELSE
           LET c1 == [c EXCEPT !.maintenance_fault_active = TRUE,
                               !.maintenance_fault_codes = @ \cup {FTHR001}]
               c2 == record_fault(c1, FTHR001)
               c3 == pr004_classify_fault(c2, FTHR001, now, now)
               c4 == IF failed_count > 1
                     THEN pr004_classify_fault(
                            record_fault(
                              [c3 EXCEPT !.maintenance_fault_codes = @ \cup {MULTI}],
                              MULTI),
                            MULTI, now, now)
                     ELSE c3
           IN IF Len(valid) >= 2 THEN Estimate(c4, Some(Average(valid)))
              ELSE IF Len(valid) = 1
                   THEN Estimate(c4, Some([num |-> valid[1].position_norm.v, den |-> 1]))
                   ELSE Estimate(c4, None)

apply_fthr001_single_sensor_failure_handling(c, now, e) ==
    IF ~c.position_sensors_provider THEN Estimate(c, None)
    ELSE IF e.readings = <<>> THEN Estimate(c, None)
    ELSE
      LET valid == ValidReadings(e.readings)
          failed_count == Len(e.readings) - Len(valid)
      IN IF failed_count = 0 THEN Estimate(c, Some(Average(e.readings)))
         ELSE
           LET c1 == [c EXCEPT !.maintenance_fault_active = TRUE,
                               !.maintenance_fault_codes = @ \cup {FTHR001}]
               c2 == record_fault(c1, FTHR001)
               c3 == pr004_classify_fault(c2, FTHR001, now, now)
               c4 == IF failed_count > 1
                     THEN pr004_classify_fault(
                            record_fault(
                              [c3 EXCEPT !.maintenance_fault_codes = @ \cup {MULTI}],
                              MULTI),
                            MULTI, now, now)
                     ELSE c3
           IN IF Len(valid) >= 2 THEN Estimate(c4, Some(Average(valid)))
              ELSE IF Len(valid) = 1
                   THEN Estimate(c4, Some([num |-> valid[1].position_norm.v, den |-> 1]))
                   ELSE Estimate(c4, None)

\* disagreement > tolerance among the valid readings (at least two of them).
Conflicting(c, e) ==
    /\ c.position_sensors_provider
    /\ Len(ValidReadings(e.readings)) >= 2
    /\ MaxPosition(ValidReadings(e.readings)) - MinPosition(ValidReadings(e.readings))
         > SensorConflictToleranceNorm

\* A mutant of ConflictOccurrence: the fault is dated at the start of the
\* persistence timer.
ConflictOccurrenceAtTimerStart(started_at) == started_at

\* occurrence_ts = self._sensor_conflict_started_at + persistence_s
ConflictOccurrence(started_at) ==
    started_at + FaultClassificationLatencyThresholdMs

\* A mutant of apply_fthr002_conflicting_position_sensors_fault: a tick on
\* which the valid sensors agree leaves the persistence timer running.
apply_fthr002_timer_kept_on_agreement(c, now, e) ==
    IF ~c.position_sensors_provider THEN [c EXCEPT !.sensor_conflict_started_at = None]
    ELSE IF e.readings = <<>> THEN [c EXCEPT !.sensor_conflict_started_at = None]
    ELSE IF Len(ValidReadings(e.readings)) < 2
         THEN [c EXCEPT !.sensor_conflict_started_at = None]
    ELSE IF ~Conflicting(c, e) THEN c
    ELSE IF c.sensor_conflict_started_at = None
         THEN [c EXCEPT !.sensor_conflict_started_at = Some(now)]
    ELSE
      LET persisted == now - Val(c.sensor_conflict_started_at)
      IN IF persisted < 0 THEN c
         ELSE IF c.sensor_conflict_fault_latched THEN c
         ELSE IF ConflictPersisted(persisted)
              THEN LET c1 == [c EXCEPT !.sensor_conflict_fault_latched = TRUE]
                       occurrence_ts == ConflictOccurrence(Val(c.sensor_conflict_started_at))
                       c2 == pr004_classify_fault(c1, FTHR002, occurrence_ts, now)
                   IN record_fault(enter_state(c2, FAULT, now), FTHR002)
              ELSE c

apply_fthr002_conflicting_position_sensors_fault(c, now, e) ==
    IF ~c.position_sensors_provider THEN [c EXCEPT !.sensor_conflict_started_at = None]
    ELSE IF e.readings = <<>> THEN [c EXCEPT !.sensor_conflict_started_at = None]
    ELSE IF Len(ValidReadings(e.readings)) < 2
         THEN [c EXCEPT !.sensor_conflict_started_at = None]
    ELSE IF ~Conflicting(c, e) THEN [c EXCEPT !.sensor_conflict_started_at = None]
    ELSE IF c.sensor_conflict_started_at = None
         THEN [c EXCEPT !.sensor_conflict_started_at = Some(now)]
    ELSE
      LET persisted == now - Val(c.sensor_conflict_started_at)
      IN IF persisted < 0 THEN c
         ELSE IF c.sensor_conflict_fault_latched THEN c
         ELSE IF ConflictPersisted(persisted)
              THEN LET c1 == [c EXCEPT !.sensor_conflict_fault_latched = TRUE]
                       occurrence_ts == ConflictOccurrence(Val(c.sensor_conflict_started_at))
                       c2 == pr004_classify_fault(c1, FTHR002, occurrence_ts, now)
                   IN record_fault(enter_state(c2, FAULT, now), FTHR002)
              ELSE c

\* A mutant of ResolvesUp: the boundary is exclusive.
ResolvesUpStrictly(sum, n) == sum < ResetUpMaxNorm * n

\* avg <= 0.1, for avg = sum / n in hundredths.
ResolvesUp(sum, n) == sum <= ResetUpMaxNorm * n

\* A mutant of ResolvesDown: the upper half of the travel validates "down".
ResolvesDownFromHalf(sum, n) == 2 * sum >= 100 * n

\* avg >= 0.9, for avg = sum / n in hundredths.
ResolvesDown(sum, n) == sum >= ResetDownMinNorm * n

\* The GearState the sensors validate after a reset, or None.
determine_state_from_sensors(c, e) ==
    IF ~c.position_sensors_provider THEN None
    ELSE IF e.readings = <<>> THEN None
    ELSE
      LET valid == ValidReadings(e.readings)
      IN IF Len(valid) = 0 THEN None
         ELSE IF ResolvesUp(SumPositions(valid), Len(valid)) THEN Some(UP_LOCKED)
         ELSE IF ResolvesDown(SumPositions(valid), Len(valid)) THEN Some(DOWN_LOCKED)
         ELSE None

-----------------------------------------------------------------------------
(* PR001 / PR004 queries *)

\* What the latency query hands back: None or a bool. A bool compares
\* equal to the number 1 or 0, which v holds.
PyNone == [k |-> "none", v |-> 0, b |-> FALSE]
PyBool(b) == [k |-> "bool", v |-> IF b THEN 1 ELSE 0, b |-> b]

\* self.fault_classification_latency_s_threshold = 0.4, in tenths.
FaultClassificationLatencySThresholdTenths == 4

\* The per-fault latency query: None until both timestamps exist, then
\* the comparison  latency > self.fault_classification_latency_s_threshold
\* with latency in milliseconds.
fault_classification_latency_ms_timeout(c, fault_code) ==
    LET occ == c.fault_occurrence_ts[fault_code]
        cls == c.fault_classified_ts[fault_code]
    IN IF occ = None \/ cls = None THEN PyNone
       ELSE PyBool((Val(cls) - Val(occ)) * 10 > FaultClassificationLatencySThresholdTenths)

deploy_actuation_latency_ms(c) ==
    IF c.deploy_latency_ms_latched # None THEN c.deploy_latency_ms_latched
    ELSE IF c.deploy_cmd_ts = None \/ c.deploy_actuation_ts = None THEN None
    ELSE Some(Val(c.deploy_actuation_ts) - Val(c.deploy_cmd_ts))

-----------------------------------------------------------------------------
(* Cadence monitoring *)

\* A mutant of check_update_cadence: both budgets are exclusive.
check_update_cadence_inclusive(c, now) ==
    IF c.last_update_ts = None THEN [c EXCEPT !.last_update_ts = Some(now)]
    ELSE
      LET dt == now - Val(c.last_update_ts)
          c1 == [c EXCEPT !.last_update_ts = Some(now)]
      IN IF dt < 0 THEN c1
         ELSE IF c.state \in {TRANSITIONING_DOWN, TRANSITIONING_UP}
              THEN IF dt >= Pr002TransitionMaxDtMs
                   THEN [c1 EXCEPT !.transition_dt_violations_s = Append(@, dt)]
                   ELSE c1
              ELSE IF dt >= Pr003SteadyMaxDtMs
                   THEN [c1 EXCEPT !.steady_dt_violations_s = Append(@, dt)]
                   ELSE c1

check_update_cadence(c, now) ==
    IF c.last_update_ts = None THEN [c EXCEPT !.last_update_ts = Some(now)]
    ELSE
      LET dt == now - Val(c.last_update_ts)
          c1 == [c EXCEPT !.last_update_ts = Some(now)]
      IN IF dt < 0 THEN c1
         ELSE IF c.state \in {TRANSITIONING_DOWN, TRANSITIONING_UP}
              THEN IF dt > Pr002TransitionMaxDtMs
                   THEN [c1 EXCEPT !.transition_dt_violations_s = Append(@, dt)]
                   ELSE c1
              ELSE IF dt > Pr003SteadyMaxDtMs
                   THEN [c1 EXCEPT !.steady_dt_violations_s = Append(@, dt)]
                   ELSE c1

-----------------------------------------------------------------------------
(* Safety interlocks *)

\* A mutant of apply_sr001_auto_deploy: the latch is not consulted.
apply_sr001_auto_deploy_unlatched(c, now, e) ==
    IF e.altitude = Unwired \/ e.normal = "unwired" THEN c
    ELSE IF e.altitude = NoReading \/ ~isfinite(e.altitude)
         THEN [c EXCEPT !.auto_deploy_latched = FALSE]
    ELSE IF e.normal # "normal" THEN [c EXCEPT !.auto_deploy_latched = FALSE]
    ELSE IF AutoDeployAltitudeReached(e.altitude)
         THEN [c EXCEPT !.auto_deploy_latched = FALSE]
    ELSE IF c.state \in {DOWN_LOCKED, TRANSITIONING_DOWN} THEN c
    ELSE LET r == command_gear_down([c EXCEPT !.issued = @ \cup {"sr001"}], TRUE, now)
         IN IF r.ret THEN [r.c EXCEPT !.auto_deploy_latched = TRUE] ELSE r.c

\* A mutant of apply_sr001_auto_deploy: the latch is set once the command
\* has been issued, accepted or not.
apply_sr001_auto_deploy_latching_on_issue(c, now, e) ==
    IF e.altitude = Unwired \/ e.normal = "unwired" THEN c
    ELSE IF e.altitude = NoReading \/ ~isfinite(e.altitude)
         THEN [c EXCEPT !.auto_deploy_latched = FALSE]
    ELSE IF e.normal # "normal" THEN [c EXCEPT !.auto_deploy_latched = FALSE]
    ELSE IF AutoDeployAltitudeReached(e.altitude)
         THEN [c EXCEPT !.auto_deploy_latched = FALSE]
    ELSE IF c.state \in {DOWN_LOCKED, TRANSITIONING_DOWN} THEN c
    ELSE IF c.auto_deploy_latched THEN c
    ELSE LET r == command_gear_down([c EXCEPT !.issued = @ \cup {"sr001"}], TRUE, now)
         IN [r.c EXCEPT !.auto_deploy_latched = TRUE]

apply_sr001_auto_deploy(c, now, e) ==
    IF e.altitude = Unwired \/ e.normal = "unwired" THEN c
    ELSE IF e.altitude = NoReading \/ ~isfinite(e.altitude)
         THEN [c EXCEPT !.auto_deploy_latched = FALSE]
    ELSE IF e.normal # "normal" THEN [c EXCEPT !.auto_deploy_latched = FALSE]
    ELSE IF AutoDeployAltitudeReached(e.altitude)
         THEN [c EXCEPT !.auto_deploy_latched = FALSE]
    ELSE IF c.state \in {DOWN_LOCKED, TRANSITIONING_DOWN} THEN c
    ELSE IF c.auto_deploy_latched THEN c
    ELSE LET r == command_gear_down([c EXCEPT !.issued = @ \cup {"sr001"}], TRUE, now)
         IN IF r.ret THEN [r.c EXCEPT !.auto_deploy_latched = TRUE] ELSE r.c

\* A mutant of deliver_low_altitude_warning: level-triggered, the warning is
\* logged on every tick on which the condition holds.
deliver_low_altitude_warning_every_tick(c, e) ==
    IF e.altitude = Unwired \/ e.normal = "unwired" THEN c
    ELSE IF e.altitude = NoReading THEN c
    ELSE IF /\ e.normal = "normal"
            /\ FloatLt(e.altitude, LowAltitudeWarningFt)
            /\ c.state \notin {DOWN_LOCKED, TRANSITIONING_DOWN}
         THEN [c EXCEPT !.warned = TRUE, !.low_alt_warning_active = TRUE]
         ELSE [c EXCEPT !.low_alt_warning_active = FALSE]

deliver_low_altitude_warning(c, e) ==
    IF e.altitude = Unwired \/ e.normal = "unwired" THEN c
    ELSE IF e.altitude = NoReading THEN c
    ELSE IF /\ e.normal = "normal"
            /\ FloatLt(e.altitude, LowAltitudeWarningFt)
            /\ c.state \notin {DOWN_LOCKED, TRANSITIONING_DOWN}
         THEN IF ~c.low_alt_warning_active
              THEN [c EXCEPT !.warned = TRUE, !.low_alt_warning_active = TRUE]
              ELSE c
         ELSE [c EXCEPT !.low_alt_warning_active = FALSE]

\* A mutant of apply_sr004_power_loss_default_down: returning power does not
\* clear the latch.
apply_sr004_latch_kept(c, now, e) ==
    IF e.power = "unwired" THEN c
    ELSE IF e.power = "present" THEN c
    ELSE
      LET c1 == [c EXCEPT !.deploy_requested = FALSE, !.retract_requested = FALSE]
      IN IF c1.state \in {DOWN_LOCKED, TRANSITIONING_DOWN} THEN c1
         ELSE IF ~c1.sr004_power_loss_latched
              THEN [command_gear_down([c1 EXCEPT !.issued = @ \cup {"sr004"}], TRUE, now).c
                      EXCEPT !.sr004_power_loss_latched = TRUE]
              ELSE c1

apply_sr004_power_loss_default_down(c, now, e) ==
    IF e.power = "unwired" THEN c
    ELSE IF e.power = "present" THEN [c EXCEPT !.sr004_power_loss_latched = FALSE]
    ELSE
      LET c1 == [c EXCEPT !.deploy_requested = FALSE, !.retract_requested = FALSE]
      IN IF c1.state \in {DOWN_LOCKED, TRANSITIONING_DOWN} THEN c1
         ELSE IF ~c1.sr004_power_loss_latched
              THEN [command_gear_down([c1 EXCEPT !.issued = @ \cup {"sr004"}], TRUE, now).c
                      EXCEPT !.sr004_power_loss_latched = TRUE]
              ELSE c1

-----------------------------------------------------------------------------
(* update(): one control tick *)

\* A mutant of DeassertBoth: the early return leaves the outputs alone.
DeassertNeither(c, now) == c

DeassertBoth(c, now) == actuate_up(actuate_down(c, FALSE, now), FALSE, now)

\* The state-specific part of update(), after the interlocks.
StateLogic(c, now, e) ==
    IF c.state = RESET THEN
        LET determined == determine_state_from_sensors(c, e)
        IN IF determined = None THEN [c EXCEPT !.reset_validated = FALSE]
           ELSE [enter_state(c, Val(determined), now) EXCEPT !.reset_validated = TRUE]
    ELSE IF c.state = UP_LOCKED THEN
        IF down_requested(c) THEN command_gear_down(c, TRUE, now).c ELSE c
    ELSE IF c.state = TRANSITIONING_DOWN THEN
        LET c1 == actuate_down(c, TRUE, now)
            elapsed == now - c1.state_entered_at
        IN IF elapsed < 0 THEN c1
           ELSE IF TransitionComplete(elapsed, c1.deploy_time_ms)
                THEN command_gear_down(c1, FALSE, now).c
                ELSE c1
    ELSE IF c.state = DOWN_LOCKED THEN
        IF up_requested(c)
        THEN IF weight_on_wheels(c) THEN c
             ELSE command_gear_up([c EXCEPT !.retract_requested = FALSE], TRUE, now, e).c
        ELSE c
    ELSE IF c.state = TRANSITIONING_UP THEN
        LET c1 == actuate_up(c, TRUE, now)
            elapsed == now - c1.state_entered_at
        IN IF elapsed < 0 THEN c1
           ELSE IF TransitionComplete(elapsed, c1.deploy_time_ms)
                THEN command_gear_up(c1, FALSE, now, e).c
                ELSE c1
    ELSE c

\* A mutant of update: no return straight after the conflict detector, the
\* interlocks run before the state is looked at.
update_without_early_return(c, now, e) ==
    LET c1 == check_update_cadence(c, now)
        c2 == apply_fthr002_conflicting_position_sensors_fault(c1, now, e)
        c3 == apply_sr004_power_loss_default_down(c2, now, e)
        f == apply_fthr001_single_sensor_failure_handling(c3, now, e)
        c4 == [f.c EXCEPT !.position_estimate_norm = f.est]
        c5 == deliver_low_altitude_warning(c4, e)
        c6 == apply_sr001_auto_deploy(c5, now, e)
    IN IF c6.state \in {FAULT, ABNORMAL} THEN DeassertBoth(c6, now)
       ELSE StateLogic(c6, now, e)

update(c, now, e) ==
    LET c1 == check_update_cadence(c, now)
        c2 == apply_fthr002_conflicting_position_sensors_fault(c1, now, e)
    IN IF c2.state \in {FAULT, ABNORMAL} THEN DeassertBoth(c2, now)
       ELSE
         LET c3 == apply_sr004_power_loss_default_down(c2, now, e)
             f == apply_fthr001_single_sensor_failure_handling(c3, now, e)
             c4 == [f.c EXCEPT !.position_estimate_norm = f.est]
             c5 == deliver_low_altitude_warning(c4, e)
             c6 == apply_sr001_auto_deploy(c5, now, e)
         IN IF c6.state \in {FAULT, ABNORMAL} THEN DeassertBoth(c6, now)
            ELSE StateLogic(c6, now, e)

\* A mutant of set_position_sensors_provider: the conflict-fault latch
\* survives the rewire.
set_position_sensors_provider_keeping_latch(c, now) ==
    [c EXCEPT !.position_sensors_provider = TRUE,
              !.state = RESET,
              !.reset_validated = FALSE,
              !.state_entered_at = now,
              !.sensor_conflict_started_at = None]

\* position_sensors_provider.setter
set_position_sensors_provider(c, now) ==
    [c EXCEPT !.position_sensors_provider = TRUE,
              !.state = RESET,
              !.reset_validated = FALSE,
              !.state_entered_at = now,
              !.sensor_conflict_started_at = None,
              !.sensor_conflict_fault_latched = FALSE]

set_weight_on_wheels(c, wow) == [c EXCEPT !.weight_on_wheels = wow]

-----------------------------------------------------------------------------
(* The operations a caller can invoke, as actions *)

\* A new operation starts: the per-operation observations are emptied.
BeginOp(c) == [c EXCEPT !.issued = {}, !.warned = FALSE]

Event(op, en, ret) == [op |-> op, en |-> en, ret |-> ret]

\* The clock moves by dt and the caller invokes update().
Tick(dt, horizon) ==
    /\ clock + dt >= 0
    /\ clock + dt <= horizon * 50
    /\ clock' = clock + dt
    /\ ctl' = update(BeginOp(ctl), clock + dt, env)
    /\ Len(ctl'.transition_dt_violations_s) <= MaxViolations
    /\ Len(ctl'.steady_dt_violations_s) <= MaxViolations
    /\ ev' = Event("update", FALSE, FALSE)
    /\ UNCHANGED env

CommandGearDown(enabled) ==
    LET r == command_gear_down(BeginOp(ctl), enabled, clock)
    IN /\ ctl' = r.c
       /\ ev' = Event("command_gear_down", enabled, r.ret)
       /\ UNCHANGED <<clock, env>>

CommandGearUp(enabled) ==
    LET r == command_gear_up(BeginOp(ctl), enabled, clock, env)
    IN /\ ctl' = r.c
       /\ ev' = Event("command_gear_up", enabled, r.ret)
       /\ UNCHANGED <<clock, env>>

SetWeightOnWheels(wow) ==
    /\ ctl.weight_on_wheels # wow
    /\ ctl' = set_weight_on_wheels(BeginOp(ctl), wow)
    /\ ev' = Event("set_weight_on_wheels", wow, FALSE)
    /\ UNCHANGED <<clock, env>>

\* The public enter_state(), as the shell's reset and the tests call it.
EnterState(new_state) ==
    /\ ctl' = enter_state(BeginOp(ctl), new_state, clock)
    /\ ev' = Event("enter_state", FALSE, FALSE)
    /\ UNCHANGED <<clock, env>>

\* A position-sensor provider is assigned after construction.
SetPositionSensorsProvider ==
    /\ ctl' = set_position_sensors_provider(BeginOp(ctl), clock)
    /\ ev' = Event("set_position_sensors_provider", FALSE, FALSE)
    /\ UNCHANGED <<clock, env>>

(* The providers' values change between operations. *)
InputChange(e) ==
    /\ env' = e
    /\ ctl' = BeginOp(ctl)
    /\ ev' = Event("input", FALSE, FALSE)
    /\ UNCHANGED clock

SetAltitude(a) == env.altitude # a /\ InputChange([env EXCEPT !.altitude = a])
SetNormalConditions(n) == env.normal # n /\ InputChange([env EXCEPT !.normal = n])
SetPrimaryPower(p) == env.power # p /\ InputChange([env EXCEPT !.power = p])
SetReadings(r) == env.readings # r /\ InputChange([env EXCEPT !.readings = r])

-----------------------------------------------------------------------------
(* Specifications *)

Dts == {50, 100}
Altitudes == {Unwired, Fin(999), Fin(1000), NaN, PosInf, NegInf}
NormalConditions == {"normal", "abnormal"}
PrimaryPower == {"unwired", "present", "absent"}

InitWith(cfg, has_sensors, has_recorder, readings) ==
    /\ clock = 0
    /\ ctl = NewController(cfg, has_sensors, has_recorder, 0)
    /\ env = [altitude |-> Unwired, normal |-> "normal", power |-> "unwired",
              readings |-> readings]
    /\ ev = [op |-> "init", en |-> FALSE, ret |-> FALSE]

(* The controller without position sensors: ticks, the pilot's commands    *)
(* and the states the shell and the tests enter directly, under changing   *)
(* power and weight-on-wheels inputs.                                      *)
Init == InitWith(TestConfig, FALSE, FALSE, <<>>)

Next ==
    \/ \E dt \in Dts : Tick(dt, MaxCommandTime)
    \/ \E enabled \in BOOLEAN : CommandGearDown(enabled)
    \/ \E enabled \in BOOLEAN : CommandGearUp(enabled)
    \/ \E wow \in BOOLEAN : SetWeightOnWheels(wow)
    \/ \E s \in {RESET, FAULT, ABNORMAL} : EnterState(s)
    \/ \E p \in PrimaryPower : SetPrimaryPower(p)

Spec == Init /\ [][Next]_vars

(* The auto-deploy interlock: the controller without position sensors      *)
(* under every kind of altitude reading, with the power-loss interlock     *)
(* able to fire on the same tick.                                          *)
NextAltitude ==
    \/ \E dt \in Dts : Tick(dt, MaxTime)
    \/ CommandGearDown(TRUE)
    \/ CommandGearUp(TRUE)
    \/ \E a \in Altitudes : SetAltitude(a)
    \/ \E n \in NormalConditions : SetNormalConditions(n)
    \/ \E p \in {"unwired", "absent"} : SetPrimaryPower(p)

SpecAltitude == Init /\ [][NextAltitude]_vars

(* The controller constructed with a position-sensor provider and a fault  *)
(* recorder, with two healthy sensors that agree or disagree: the conflict *)
(* persistence timer and the FAULT it leads to, also during a deploy or a  *)
(* retract.                                                                *)
Reading2(p1, p2) ==
    <<PositionSensorReading(OK, Fin(p1)), PositionSensorReading(OK, Fin(p2))>>

ConflictInputs ==
    { Reading2(0, 20),      \* agree (disagreement exactly 0.20), mean 0.10
      Reading2(80, 100),    \* agree, mean 0.90
      Reading2(0, 21),      \* conflict, mean 0.105
      Reading2(0, 100) }    \* conflict, mean 0.50

SensorDts == {50, 100}

InitConflict == \E r \in ConflictInputs : InitWith(TestConfig, TRUE, TRUE, r)

NextConflict ==
    \/ \E dt \in SensorDts : Tick(dt, MaxSensorTime)
    \/ CommandGearDown(TRUE)
    \/ CommandGearUp(TRUE)
    \/ \E r \in ConflictInputs : SetReadings(r)

SpecConflict == InitConflict /\ [][NextConflict]_vars

(* A clock that may also move backward, with sensors that agree on "up" or *)
(* disagree: transition timing against the state-entry timestamp.          *)
ClockInputs ==
    { Reading2(0, 20),      \* agree, mean 0.10
      <<PositionSensorReading(OK, Fin(0)), PositionSensorReading(OK, Fin(0)),
        PositionSensorReading(OK, Fin(30))>> }     \* conflict, mean 0.10

ClockDts == {-100, 100}

InitClock == \E r \in ClockInputs : InitWith(TestConfig, TRUE, FALSE, r)

NextClock ==
    \/ \E dt \in ClockDts : Tick(dt, MaxSensorTime)
    \/ CommandGearDown(TRUE)
    \/ CommandGearUp(TRUE)
    \/ \E r \in ClockInputs : SetReadings(r)

SpecClock == InitClock /\ [][NextClock]_vars

(* RESET validation: the controller constructed with or without a         *)
(* position-sensor provider, returned to RESET by the shell's reset, under *)
(* healthy, failed, non-finite and missing readings.                       *)
ResetInputs ==
    { Reading2(0, 20),      \* mean 0.10
      Reading2(0, 21),      \* mean 0.105
      Reading2(50, 50),     \* mean 0.50
      Reading2(89, 89),     \* mean 0.89
      Reading2(80, 100),    \* mean 0.90
      <<PositionSensorReading(OK, Fin(0)), PositionSensorReading(FAILED, Fin(100))>>,
      <<PositionSensorReading(OK, NaN), PositionSensorReading(FAILED, Fin(0))>>,
      <<>> }

InitReset ==
    \E has_sensors \in BOOLEAN :
        InitWith(TestConfig, has_sensors, FALSE, Reading2(50, 50))

NextReset ==
    \/ Tick(100, MaxSensorTime)
    \/ EnterState(RESET)
    \/ \E r \in ResetInputs : SetReadings(r)

SpecReset == InitReset /\ [][NextReset]_vars

(* Commands while in RESET: the pilot's, and those the power-loss and      *)
(* auto-deploy interlocks issue during a tick.                             *)
ResetCommandInputs == {Reading2(50, 50), Reading2(0, 20)}

InitResetCommands == InitWith(TestConfig, TRUE, FALSE, Reading2(50, 50))

NextResetCommands ==
    \/ \E dt \in Dts : Tick(dt, MaxResetTime)
    \/ \E enabled \in BOOLEAN : CommandGearDown(enabled)
    \/ \E enabled \in BOOLEAN : CommandGearUp(enabled)
    \/ \E r \in ResetCommandInputs : SetReadings(r)
    \/ \E p \in {"unwired", "absent"} : SetPrimaryPower(p)
    \/ \E a \in {Unwired, Fin(999)} : SetAltitude(a)

SpecResetCommands == InitResetCommands /\ [][NextResetCommands]_vars

(* FAULT and ABNORMAL, entered as the tests enter them, with sensors that  *)
(* validate "up" or "down" and with power, altitude and weight-on-wheels   *)
(* inputs that would otherwise move the machine.                           *)
FaultInputs == {Reading2(0, 20), Reading2(80, 100)}

InitFault == \E r \in FaultInputs : InitWith(TestConfig, TRUE, FALSE, r)

NextFault ==
    \/ \E dt \in Dts : Tick(dt, MaxResetTime)
    \/ \E enabled \in BOOLEAN : CommandGearDown(enabled)
    \/ \E enabled \in BOOLEAN : CommandGearUp(enabled)
    \/ \E s \in {FAULT, ABNORMAL} : EnterState(s)
    \/ \E wow \in BOOLEAN : SetWeightOnWheels(wow)
    \/ \E p \in {"present", "absent"} : SetPrimaryPower(p)
    \/ \E a \in {Unwired, Fin(999)} : SetAltitude(a)

SpecFault == InitFault /\ [][NextFault]_vars

-----------------------------------------------------------------------------
(* Claims *)

IsUpdate == ev'.op = "update"
IsCommandDown == ev'.op = "command_gear_down"
IsCommandUp == ev'.op = "command_gear_up"
\* A tick, a command or a change of an input (not a direct enter_state or a
\* sensor rewire).
IsTickCommandOrInput ==
    ev'.op \in {"update", "command_gear_down", "command_gear_up",
                "set_weight_on_wheels", "input"}

\* C1: weight-on-wheels interlock.  command_gear_up(True) called while
\* weight-on-wheels is true returns false and leaves the state alone, in
\* every state and for every power value; and no tick, command or input
\* change taken while weight-on-wheels is true moves the machine from
\* DOWN_LOCKED to TRANSITIONING_UP.
C1_WeightOnWheelsInterlock ==
    [][ /\ (IsCommandUp /\ ev'.en /\ ctl.weight_on_wheels)
            => (~ev'.ret /\ ctl'.state = ctl.state)
        /\ (IsTickCommandOrInput /\ ctl.weight_on_wheels /\ ctl.state = DOWN_LOCKED)
            => ctl'.state # TRANSITIONING_UP
      ]_vars

\* C1 witness: a retract command from DOWN_LOCKED, with power not absent,
\* has just been rejected with weight-on-wheels true.
C1_Witness ==
    /\ ev.op = "command_gear_up" /\ ev.en /\ ~ev.ret
    /\ ctl.weight_on_wheels
    /\ ctl.state = DOWN_LOCKED
    /\ env.power = "present"

\* C2: command_gear_down(True) returns true iff the state at the call is
\* UP_LOCKED; accepted, the state becomes TRANSITIONING_DOWN with the down
\* actuator asserted; rejected, the state is unchanged.
C2_DeployAcceptedOnlyFromUpLocked ==
    [][ (IsCommandDown /\ ev'.en) =>
          /\ ev'.ret <=> (ctl.state = UP_LOCKED)
          /\ ev'.ret => (ctl'.state = TRANSITIONING_DOWN /\ DownAsserted(ctl'))
          /\ ~ev'.ret => ctl'.state = ctl.state
      ]_vars

\* C2 witness: a second deploy command, called at the clock reading at which
\* the first was accepted, has been rejected while TRANSITIONING_DOWN.
C2_Witness ==
    /\ ev.op = "command_gear_down" /\ ev.en /\ ~ev.ret
    /\ ctl.state = TRANSITIONING_DOWN
    /\ ctl.deploy_cmd_ts = Some(clock)
    /\ DownAsserted(ctl)

\* C3: command_gear_up(True) returns true iff the state at the call is
\* DOWN_LOCKED, weight-on-wheels is false and the power provider is unwired
\* or reports power present; accepted, the state becomes TRANSITIONING_UP
\* with the up actuator asserted; rejected, the state is unchanged.
C3_RetractAcceptance ==
    [][ (IsCommandUp /\ ev'.en) =>
          /\ ev'.ret <=> /\ ctl.state = DOWN_LOCKED
                         /\ ~ctl.weight_on_wheels
                         /\ env.power \in {"unwired", "present"}
          /\ ev'.ret => (ctl'.state = TRANSITIONING_UP /\ UpAsserted(ctl'))
          /\ ~ev'.ret => ctl'.state = ctl.state
      ]_vars

\* C3 witness: a retract command has been accepted with no power provider
\* wired.
C3_Witness ==
    /\ ev.op = "command_gear_up" /\ ev.en /\ ev.ret
    /\ ctl.state = TRANSITIONING_UP
    /\ UpAsserted(ctl)
    /\ env.power = "unwired"

\* C4: while the state is FAULT or ABNORMAL, every command_gear_down and
\* command_gear_up call, with enable true or false, returns false, leaves
\* the state unchanged and sets neither actuator output to true.
C4_CommandsIgnoredInFault ==
    [][ ((IsCommandDown \/ IsCommandUp) /\ ctl.state \in {FAULT, ABNORMAL}) =>
          /\ ~ev'.ret
          /\ ctl'.state = ctl.state
          /\ DownAsserted(ctl') => DownAsserted(ctl)
          /\ UpAsserted(ctl') => UpAsserted(ctl)
      ]_vars

\* C4 witness: command_gear_down(False) has been called in ABNORMAL.
C4_Witness ==
    /\ ev.op = "command_gear_down" /\ ~ev.en /\ ~ev.ret
    /\ ctl.state = ABNORMAL

\* C5: once the state is FAULT or ABNORMAL, no tick and no command brings it
\* back to RESET, UP_LOCKED, TRANSITIONING_DOWN, DOWN_LOCKED or
\* TRANSITIONING_UP.
C5_FaultIsTerminal ==
    [][ ((IsUpdate \/ IsCommandDown \/ IsCommandUp) /\ ctl.state \in {FAULT, ABNORMAL})
          => ctl'.state \in {FAULT, ABNORMAL}
      ]_vars

\* C5 witness: a tick has run in FAULT with sensors that validate "up",
\* power absent and altitude below the auto-deploy threshold.
C5_Witness ==
    /\ ev.op = "update"
    /\ ctl.state = FAULT
    /\ ctl.last_update_ts = Some(clock)
    /\ env.readings = Reading2(0, 20)
    /\ env.power = "absent"
    /\ env.altitude = Fin(999)

\* C6: on a tick that starts outside FAULT with at least two OK, finite
\* readings disagreeing by more than the tolerance, the first conflicting
\* tick starts the persistence timer without a fault; a later conflicting
\* tick keeps the timer and puts the machine into FAULT iff the clock
\* reading minus the timer is strictly greater than 0.50 s (exactly 0.50 s
\* is not a fault); a tick without a conflict clears the timer.
C6_ConflictFaultAfterPersistence ==
    [][ (IsUpdate /\ ctl.state # FAULT) =>
          IF Conflicting(ctl, env)
          THEN IF ctl.sensor_conflict_started_at = None
               THEN /\ ctl'.sensor_conflict_started_at = Some(clock')
                    /\ ctl'.state # FAULT
               ELSE /\ ctl'.sensor_conflict_started_at = ctl.sensor_conflict_started_at
                    /\ (ctl'.state = FAULT) <=>
                         (clock' - Val(ctl.sensor_conflict_started_at)
                             > FaultClassificationLatencyThresholdMs)
          ELSE /\ ctl'.sensor_conflict_started_at = None
               /\ ctl'.state # FAULT
      ]_vars

\* C6 witness: a tick has put the machine into FAULT with the conflict
\* persisted 0.55 s, one 50 ms tick after the 0.50 s boundary.
C6_Witness ==
    /\ ev.op = "update"
    /\ ctl.state = FAULT
    /\ ctl.sensor_conflict_fault_latched
    /\ ctl.state_entered_at = clock
    /\ ctl.sensor_conflict_started_at = Some(clock - 550)

\* The tick leaves the machine in the transitioning state it started in,
\* with that transition's actuator asserted.
StaysTransitioning ==
    /\ ctl'.state = ctl.state
    /\ ctl.state = TRANSITIONING_DOWN => DownAsserted(ctl')
    /\ ctl.state = TRANSITIONING_UP => UpAsserted(ctl')

\* The tick completes the transition it started in and de-asserts the
\* actuator.
CompletesTransition ==
    /\ ctl.state = TRANSITIONING_DOWN
         => (ctl'.state = DOWN_LOCKED /\ ~DownAsserted(ctl'))
    /\ ctl.state = TRANSITIONING_UP
         => (ctl'.state = UP_LOCKED /\ ~UpAsserted(ctl'))

\* C7 (as stated): a tick in TRANSITIONING_DOWN (resp. TRANSITIONING_UP)
\* completes to DOWN_LOCKED (resp. UP_LOCKED) and de-asserts the actuator
\* iff the clock reading minus the state-entry timestamp is >= deploy_time;
\* otherwise the state stays transitioning with the actuator asserted.
C7_AsStated ==
    [][ (IsUpdate /\ ctl.state \in {TRANSITIONING_DOWN, TRANSITIONING_UP}) =>
          IF clock' - ctl.state_entered_at >= ctl.deploy_time_ms
          THEN CompletesTransition
          ELSE StaysTransitioning
      ]_vars

\* C7 (amended): a tick in TRANSITIONING_DOWN (resp. TRANSITIONING_UP) that
\* does not latch the sensor-conflict fault completes to DOWN_LOCKED (resp.
\* UP_LOCKED) and de-asserts the actuator iff the clock reading minus the
\* state-entry timestamp is >= deploy_time (boundary inclusive); with a
\* smaller or a negative elapsed time the state stays transitioning with
\* the actuator asserted.  A tick that latches the conflict fault puts the
\* machine into FAULT with both actuators de-asserted instead.
C7_TransitionCompletesAtDeployTime ==
    [][ (IsUpdate /\ ctl.state \in {TRANSITIONING_DOWN, TRANSITIONING_UP}) =>
          IF ctl'.sensor_conflict_fault_latched /\ ~ctl.sensor_conflict_fault_latched
          THEN /\ ctl'.state = FAULT
               /\ ~DownAsserted(ctl') /\ ~UpAsserted(ctl')
          ELSE IF clock' - ctl.state_entered_at >= ctl.deploy_time_ms
               THEN CompletesTransition
               ELSE StaysTransitioning
      ]_vars

\* C7 witness: a tick has completed a deploy with the elapsed time exactly
\* equal to deploy_time.
C7_Witness ==
    /\ ev.op = "update"
    /\ ctl.state = DOWN_LOCKED
    /\ ctl.state_entered_at = clock
    /\ ctl.deploy_cmd_ts = Some(clock - ctl.deploy_time_ms)
    /\ ctl.last_gear_down_cmd = Some(FALSE)

\* The mean of the OK, finite readings exists.
HasValidReadings ==
    ctl.position_sensors_provider /\ Len(ValidReadings(env.readings)) > 0

\* mean <= 0.10 and mean >= 0.90 over the OK, finite readings.
MeanAtMostTenth ==
    10 * SumPositions(ValidReadings(env.readings)) <= 100 * Len(ValidReadings(env.readings))
MeanAtLeastNineTenths ==
    10 * SumPositions(ValidReadings(env.readings)) >= 900 * Len(ValidReadings(env.readings))

\* C8: a tick in RESET that does not end in FAULT moves to UP_LOCKED iff
\* the mean of the OK, finite readings exists and is <= 0.10, to
\* DOWN_LOCKED iff it exists and is >= 0.90, and otherwise stays in RESET
\* (provider absent, no readings, no OK and finite reading, or a mean in
\* between).
C8_ResetResolution ==
    [][ (IsUpdate /\ ctl.state = RESET /\ ctl'.state # FAULT) =>
          /\ (ctl'.state = UP_LOCKED) <=> (HasValidReadings /\ MeanAtMostTenth)
          /\ (ctl'.state = DOWN_LOCKED) <=> (HasValidReadings /\ MeanAtLeastNineTenths)
          /\ ctl'.state \in {UP_LOCKED, DOWN_LOCKED, RESET}
      ]_vars

\* C8 witness: a tick has resolved RESET to UP_LOCKED with a mean of exactly
\* 0.10.
C8_Witness ==
    /\ ev.op = "update"
    /\ ctl.state = UP_LOCKED
    /\ ctl.reset_validated
    /\ ctl.state_entered_at = clock
    /\ clock > 0
    /\ env.readings = Reading2(0, 20)

\* C9: in RESET every deploy and retract command returns false and leaves
\* the state RESET; a command the power-loss or auto-deploy interlock
\* issues during a tick in RESET starts no transition and sets no
\* auto-deploy latch; and with a mean valid-sensor position strictly
\* between 0.10 and 0.90, no tick, command or input change moves the
\* machine from RESET to UP_LOCKED or DOWN_LOCKED.
C9_ResetRejectsCommands ==
    [][ ctl.state = RESET =>
          /\ (IsCommandDown \/ IsCommandUp)
               => (~ev'.ret /\ ctl'.state = RESET)
          /\ IsUpdate
               => /\ ctl'.state \notin {TRANSITIONING_DOWN, TRANSITIONING_UP}
                  /\ ~ctl'.auto_deploy_latched
                  /\ ~DownAsserted(ctl') /\ ~UpAsserted(ctl')
          /\ (IsTickCommandOrInput /\ HasValidReadings
                /\ ~MeanAtMostTenth /\ ~MeanAtLeastNineTenths)
               => ctl'.state \notin {UP_LOCKED, DOWN_LOCKED}
      ]_vars

\* C9 witness: a tick in RESET with a mean of 0.5 on which both the
\* power-loss and the auto-deploy interlock issued a deploy command.
C9_Witness ==
    /\ ev.op = "update"
    /\ ctl.state = RESET
    /\ ctl.issued = {"sr001", "sr004"}
    /\ env.readings = Reading2(50, 50)

\* Altitude finite and below 1000 ft with normal conditions.
LowAltitude ==
    /\ env.altitude.k = "fin" /\ env.altitude.v < 1000
    /\ env.normal = "normal"

C11_AutoDeployOncePerExcursion ==
    [][ /\ IsUpdate =>
             /\ ctl.auto_deploy_latched => "sr001" \notin ctl'.issued
             /\ (~ctl.auto_deploy_latched /\ ctl'.auto_deploy_latched)
                  => /\ "sr001" \in ctl'.issued
                     /\ ctl'.deploy_cmd_ts = Some(clock')
             /\ (env.altitude # Unwired /\ ~LowAltitude) => ~ctl'.auto_deploy_latched
             /\ (ctl.auto_deploy_latched /\ (env.altitude = Unwired \/ LowAltitude))
                  => ctl'.auto_deploy_latched
        /\ ~IsUpdate => ctl'.auto_deploy_latched = ctl.auto_deploy_latched
      ]_vars

\* C11 witness: after an auto-deploy and a pilot retract, a tick in
\* UP_LOCKED at 999 ft with the latch still set has issued no command.
C11_Witness ==
    /\ ev.op = "update"
    /\ ctl.state = UP_LOCKED
    /\ ctl.auto_deploy_latched
    /\ ctl.state_entered_at < clock
    /\ env.altitude = Fin(999)
    /\ env.normal = "normal"
    /\ env.power = "unwired"
    /\ ctl.issued = {}

\* C12: a tick that starts in UP_LOCKED with power reported absent and the
\* power-loss latch clear ends in TRANSITIONING_DOWN with the forced deploy
\* issued and the latch set; a tick that starts with the latch set and sees
\* power absent issues no forced deploy and keeps the latch; a tick that
\* sees power present clears the latch; nothing but a tick changes it.
C12_PowerLossDefaultDown ==
    [][ /\ IsUpdate =>
             /\ (ctl.state = UP_LOCKED /\ env.power = "absent"
                   /\ ~ctl.sr004_power_loss_latched)
                  => /\ ctl'.state = TRANSITIONING_DOWN
                     /\ DownAsserted(ctl')
                     /\ "sr004" \in ctl'.issued
                     /\ ctl'.sr004_power_loss_latched
             /\ (ctl.sr004_power_loss_latched /\ env.power = "absent")
                  => ("sr004" \notin ctl'.issued /\ ctl'.sr004_power_loss_latched)
             /\ (env.power = "present" /\ ctl.state \notin {FAULT, ABNORMAL})
                  => ~ctl'.sr004_power_loss_latched
        /\ ~IsUpdate => ctl'.sr004_power_loss_latched = ctl.sr004_power_loss_latched
      ]_vars

\* C12 witness: the first tick that sees power present again has cleared
\* the latch, with the forced deploy still in progress.
C12_Witness ==
    /\ ev.op = "update"
    /\ env.power = "present"
    /\ ~ctl.sr004_power_loss_latched
    /\ ctl.state = TRANSITIONING_DOWN
    /\ ctl.deploy_cmd_ts = Some(clock - 50)

\* C13: command_gear_up(True) called while the power provider reports power
\* absent returns false and leaves the state alone, in every state and for
\* either weight-on-wheels value; called from DOWN_LOCKED with
\* weight-on-wheels false while the provider reports power present it is
\* accepted.
C13_RetractRejectedWithoutPower ==
    [][ (IsCommandUp /\ ev'.en) =>
          /\ env.power = "absent" => (~ev'.ret /\ ctl'.state = ctl.state)
          /\ (env.power = "present" /\ ctl.state = DOWN_LOCKED /\ ~ctl.weight_on_wheels)
               => (ev'.ret /\ ctl'.state = TRANSITIONING_UP)
      ]_vars

\* C13 witness: after a forced deploy on power loss, with power present
\* again and before any tick has seen it, a retract has been accepted.
C13_Witness ==
    /\ ev.op = "command_gear_up" /\ ev.en /\ ev.ret
    /\ env.power = "present"
    /\ ctl.sr004_power_loss_latched
    /\ ~ctl.weight_on_wheels
    /\ ctl.state = TRANSITIONING_UP

\* C14 (as stated, the part a finite run can refute): with power reported
\* absent the gear does not remain in UP_LOCKED, so a tick that starts in
\* UP_LOCKED with power absent does not end in UP_LOCKED.
C14_AsStated ==
    [][ (IsUpdate /\ env.power = "absent" /\ ctl.state = UP_LOCKED)
          => ctl'.state # UP_LOCKED
      ]_vars

\* C14, what the code does instead: once the power-loss latch is set, a
\* tick that sees power absent leaves a gear that is in UP_LOCKED in
\* UP_LOCKED, issuing nothing.
C14_StaysUpOnceLatched ==
    [][ (IsUpdate /\ env.power = "absent" /\ ctl.state = UP_LOCKED
           /\ ctl.sr004_power_loss_latched)
          => (ctl'.state = UP_LOCKED /\ ctl'.issued = {}
                /\ ctl'.sr004_power_loss_latched)
      ]_vars

\* C14 witness: power was lost during a retract; the retract has completed
\* and a further tick with power absent has left the gear in UP_LOCKED.
C14_Witness ==
    /\ ev.op = "update"
    /\ env.power = "absent"
    /\ ctl.state = UP_LOCKED
    /\ ctl.sr004_power_loss_latched
    /\ ctl.state_entered_at < clock
    /\ ctl.last_gear_up_cmd = Some(FALSE)

-----------------------------------------------------------------------------
(* The low-altitude warning: the controller without position sensors      *)
(* around the 2000 ft boundary and under non-finite altitudes, with FAULT  *)
(* entered as the tests enter it and the power-loss interlock able to      *)
(* start a deploy on the same tick.                                        *)
WarningAltitudes == {Fin(1999), Fin(2000), NaN, PosInf, NegInf}

NextWarning ==
    \/ \E dt \in Dts : Tick(dt, MaxTime)
    \/ CommandGearDown(TRUE)
    \/ CommandGearUp(TRUE)
    \/ EnterState(FAULT)
    \/ \E a \in WarningAltitudes : SetAltitude(a)
    \/ \E n \in NormalConditions : SetNormalConditions(n)
    \/ \E p \in {"unwired", "absent"} : SetPrimaryPower(p)

SpecWarning == Init /\ [][NextWarning]_vars

\* Conditions normal and altitude below 2000 ft (as the comparison
\* altitude < 2000.0 answers: false for NaN and +Infinity).
BelowWarningAltitude ==
    /\ env.normal = "normal"
    /\ \/ (env.altitude.k = "fin" /\ env.altitude.v < 2000)
       \/ env.altitude.k = "ninf"

\* The gear is neither down nor on its way down when the tick starts.
GearNotDown == ctl.state \notin {DOWN_LOCKED, TRANSITIONING_DOWN}

\* The power-loss interlock starts a deploy on this tick, before the
\* warning is evaluated.
ForcedDeployThisTick == ctl.state = UP_LOCKED /\ "sr004" \in ctl'.issued

C16_AsStated ==
    [][ (IsUpdate /\ env.altitude.k \in {"nan", "pinf", "ninf"}) => ~ctl'.warned ]_vars

\* C16, the part that holds: on a tick whose altitude is NaN or +Infinity
\* no low-altitude warning is emitted and the warning latch is cleared.
C16_NoWarningOnNaNOrPosInf ==
    [][ (IsUpdate /\ env.altitude.k \in {"nan", "pinf"}) =>
          /\ ~ctl'.warned
          /\ ctl.state \notin {FAULT, ABNORMAL} => ~ctl'.low_alt_warning_active
      ]_vars

\* C16 witness: a tick whose altitude is -Infinity has emitted the warning.
C16_Witness ==
    /\ ev.op = "update"
    /\ env.altitude = NegInf
    /\ ctl.warned
    /\ ctl.low_alt_warning_active

\* C17: after every tick that ends with the state FAULT or ABNORMAL, both
\* the down and the up actuator output are de-asserted (the last value
\* written to each is False).
C17_ActuatorsOffInFault ==
    (ev.op = "update" /\ ctl.state \in {FAULT, ABNORMAL})
        => /\ ctl.last_gear_down_cmd = Some(FALSE)
           /\ ctl.last_gear_up_cmd = Some(FALSE)

\* C17 witness: a sensor-conflict fault has interrupted a deploy 50 ms
\* after it was commanded.
C17_Witness ==
    /\ ev.op = "update"
    /\ ctl.state = FAULT
    /\ ctl.sensor_conflict_fault_latched
    /\ ctl.state_entered_at = clock
    /\ ctl.deploy_cmd_ts = Some(clock - 50)
    /\ ctl.last_gear_down_cmd = Some(FALSE)

-----------------------------------------------------------------------------
(* Sensor fusion: the controller constructed with sensors and a fault      *)
(* recorder, under healthy, failed and non-finite readings, in RESET and,  *)
(* once the sensors have validated "up", through a deploy.                 *)
FusionInputs ==
    { <<PositionSensorReading(OK, Fin(80)), PositionSensorReading(OK, Fin(90)),
        PositionSensorReading(FAILED, Fin(0))>>,          \* one failed: 0.85
      Reading2(80, 90),                                   \* all healthy: 0.85
      Reading2(0, 20),                                    \* all healthy: 0.10
      <<PositionSensorReading(OK, Fin(80)), PositionSensorReading(FAILED, Fin(0)),
        PositionSensorReading(FAILED, Fin(0))>>,          \* two failed: 0.80
      <<PositionSensorReading(OK, Fin(80)), PositionSensorReading(OK, PosInf)>>,
                                                          \* one non-finite: 0.80
      <<PositionSensorReading(FAILED, Fin(0)), PositionSensorReading(OK, NaN)>>,
                                                          \* none valid
      <<>> }

InitFusion == InitWith(TestConfig, TRUE, TRUE, Reading2(80, 90))

NextFusion ==
    \/ Tick(100, MaxTime)
    \/ CommandGearDown(TRUE)
    \/ \E r \in FusionInputs : SetReadings(r)

SpecFusion == InitFusion /\ [][NextFusion]_vars

\* A reading that is OK with a finite position.
OkFinite(r) == r.status = OK /\ r.position_norm.k = "fin"

\* C18: on a tick processed in a state other than FAULT/ABNORMAL with a
\* non-empty reading list, the position estimate after the tick is the mean
\* of the OK, finite readings (undefined if there is none), and the
\* maintenance set gains FTHR001_SINGLE_SENSOR_FAILURE iff at least one
\* reading is FAILED or non-finite, MULTIPLE_SENSOR_FAILURE iff more than
\* one is, and nothing when all readings are OK and finite.
C18_SensorFusion ==
    [][ (IsUpdate /\ ctl.state \notin {FAULT, ABNORMAL}
           /\ ctl'.state \notin {FAULT, ABNORMAL}
           /\ ctl.position_sensors_provider /\ env.readings # <<>>) =>
          LET good == SelectSeq(env.readings, OkFinite)
              bad == Len(env.readings) - Len(good)
          IN /\ ctl'.position_estimate_norm =
                  IF Len(good) = 0 THEN None
                  ELSE Some([num |-> SumPositions(good), den |-> Len(good)])
             /\ ctl'.maintenance_fault_codes =
                  ctl.maintenance_fault_codes
                    \cup (IF bad >= 1 THEN {FTHR001} ELSE {})
                    \cup (IF bad > 1 THEN {MULTI} ELSE {})
      ]_vars

\* C18 witness: after a tick on [OK 0.8, OK 0.9, FAILED 0.0] the estimate is
\* 0.85 (170/2 hundredths) and FTHR001 is the only maintenance code.
C18_Witness ==
    /\ ev.op = "update"
    /\ env.readings = <<PositionSensorReading(OK, Fin(80)),
                        PositionSensorReading(OK, Fin(90)),
                        PositionSensorReading(FAILED, Fin(0))>>
    /\ ctl.position_estimate_norm = Some([num |-> 170, den |-> 2])
    /\ ctl.maintenance_fault_codes = {FTHR001}

\* C19: the maintenance-fault code set only grows: no tick, command or
\* input change removes a code, and a tick that re-observes a degraded
\* condition whose codes are all present leaves the set as it is.
C19_MaintenanceCodesOnlyGrow ==
    [][ /\ ctl.maintenance_fault_codes \subseteq ctl'.maintenance_fault_codes
        /\ ctl'.maintenance_fault_codes \subseteq {FTHR001, MULTI}
        /\ ~IsUpdate => ctl'.maintenance_fault_codes = ctl.maintenance_fault_codes
        /\ ctl.maintenance_fault_active => ctl'.maintenance_fault_active
      ]_vars

\* C19 witness: the failed sensor has recovered and a tick on all-healthy
\* readings has kept FTHR001 in the set.
C19_Witness ==
    /\ ev.op = "update"
    /\ env.readings = Reading2(80, 90)
    /\ ctl.position_estimate_norm = Some([num |-> 170, den |-> 2])
    /\ FTHR001 \in ctl.maintenance_fault_codes
    /\ ctl.maintenance_fault_active

-----------------------------------------------------------------------------
(* The fault sink: the controller with sensors and a fault recorder over   *)
(* two seconds of 250 ms ticks, with readings that agree or that conflict  *)
(* with one sensor failed, and with the sensor provider assigned again,    *)
(* which re-arms the conflict latch.                                       *)
SinkInputs ==
    { Reading2(0, 20),
      <<PositionSensorReading(OK, Fin(0)), PositionSensorReading(OK, Fin(100)),
        PositionSensorReading(FAILED, Fin(0))>> }

InitSink == InitWith(TestConfig, TRUE, TRUE, Reading2(0, 20))

NextSink ==
    \/ Tick(250, MaxSinkTime)
    \/ \E r \in SinkInputs : SetReadings(r)
    \/ SetPositionSensorsProvider

SpecSink == InitSink /\ [][NextSink]_vars

\* C20: record(code) is never called twice for the same code: the sequence
\* of codes handed to the fault sink has no repetition; and each code that
\* has been raised (a maintenance code, or the conflict fault while its
\* latch is set) has been handed to the sink.
C20_SinkRecordsEachCodeOnce ==
    /\ \A i, j \in DOMAIN ctl.sink : ctl.sink[i] = ctl.sink[j] => i = j
    /\ \A code \in ctl.maintenance_fault_codes :
         \E i \in DOMAIN ctl.sink : ctl.sink[i] = code
    /\ ctl.sensor_conflict_fault_latched
         => \E i \in DOMAIN ctl.sink : ctl.sink[i] = FTHR002

\* C20 witness: after a rewire re-armed the conflict latch, a second
\* persistent conflict has put the machine into FAULT again; FTHR001 and
\* FTHR002 are each in the sink once.
C20_Witness ==
    /\ ev.op = "update"
    /\ ctl.state = FAULT
    /\ ctl.sensor_conflict_fault_latched
    /\ ctl.state_entered_at = clock
    /\ ctl.fault_classified_ts[FTHR002] # None
    /\ Val(ctl.fault_classified_ts[FTHR002]) < clock
    /\ ctl.sink = <<FTHR001, FTHR002>>

-----------------------------------------------------------------------------
(* Fault timing: the controller with sensors and a fault recorder, ticked  *)
(* every 250 ms, with two healthy sensors that agree or disagree, a  *)
(* disagreeing pair of one FAILED and one OK sensor, the pilot's commands, *)
(* and the sensor provider assigned again, which re-arms the conflict      *)
(* latch so that the conflict fault can be raised a second time.           *)
TimingInputs ==
    { Reading2(0, 20),
      Reading2(0, 100),
      <<PositionSensorReading(FAILED, Fin(0)), PositionSensorReading(OK, Fin(100))>> }

InitTiming == InitWith(TestConfig, TRUE, TRUE, Reading2(0, 20))

NextTiming ==
    \/ Tick(250, MaxSinkTime)
    \/ CommandGearDown(TRUE)
    \/ \E r \in TimingInputs : SetReadings(r)
    \/ SetPositionSensorsProvider

SpecTiming == InitTiming /\ [][NextTiming]_vars

\* C21: fault timing records are first-write-wins. Whatever the operation
\* (a tick, a command, a change of readings, a sensor rewire), an occurrence
\* timestamp that is stored keeps its value, a classification timestamp that
\* is stored keeps its value, and so the latency query for a code whose pair
\* is stored gives the same answer afterwards.
C21_TimingRecordsFirstWriteWins ==
    [][ \A code \in FaultCodes :
          /\ ctl.fault_occurrence_ts[code] # None
               => ctl'.fault_occurrence_ts[code] = ctl.fault_occurrence_ts[code]
          /\ ctl.fault_classified_ts[code] # None
               => ctl'.fault_classified_ts[code] = ctl.fault_classified_ts[code]
          /\ (ctl.fault_occurrence_ts[code] # None /\ ctl.fault_classified_ts[code] # None)
               => fault_classification_latency_ms_timeout(ctl', code)
                    = fault_classification_latency_ms_timeout(ctl, code)
      ]_vars

\* C21 witness: after a rewire re-armed the conflict latch, a second
\* persistent conflict has just put the machine into FAULT again, and the
\* stored pair for the conflict fault is still that of the first fault.
C21_Witness ==
    /\ ev.op = "update"
    /\ ctl.state = FAULT
    /\ ctl.state_entered_at = clock
    /\ ctl.sensor_conflict_fault_latched
    /\ ctl.fault_classified_ts[FTHR002] # None
    /\ Val(ctl.fault_classified_ts[FTHR002]) < clock
    /\ ctl.fault_occurrence_ts[FTHR002] # None
    /\ Val(ctl.fault_classified_ts[FTHR002]) < Val(ctl.sensor_conflict_started_at)

\* The persistence timer is running on a disagreement that is still there
\* when this tick evaluates it.
ConflictContinues ==
    /\ IsUpdate
    /\ Conflicting(ctl, env)
    /\ ctl.sensor_conflict_started_at # None

\* C22, as stated: on a tick at which a continuing conflict has persisted
\* for 0.40 s or more, the classification of FTHR002 is on record
\* afterwards, with the start of the persistence timer as its occurrence
\* timestamp; and a tick that records the classification does not end in
\* FAULT. The code classifies only on the tick that enters FAULT, strictly
\* beyond 0.50 s, and dates the occurrence 0.50 s after the timer started.
C22_AsStated ==
    [][ /\ (ConflictContinues
             /\ (clock' - Val(ctl.sensor_conflict_started_at)) * 10
                  >= FaultClassificationLatencySThresholdTenths * 1000)
            => /\ ctl'.fault_classified_ts[FTHR002] # None
               /\ ctl'.fault_occurrence_ts[FTHR002] = ctl.sensor_conflict_started_at
        /\ (IsUpdate /\ ctl.fault_classified_ts[FTHR002] = None
                     /\ ctl'.fault_classified_ts[FTHR002] # None)
            => ctl'.state # FAULT
      ]_vars

\* C22 witness: a conflict that has persisted 0.50 s at the last tick, with
\* the machine not in FAULT and nothing classified.
C22_Witness ==
    /\ ev.op = "update"
    /\ Conflicting(ctl, env)
    /\ ctl.sensor_conflict_started_at # None
    /\ clock - Val(ctl.sensor_conflict_started_at) = FaultClassificationLatencyThresholdMs
    /\ ctl.state # FAULT
    /\ ctl.fault_classified_ts[FTHR002] = None
    /\ ctl.fault_occurrence_ts[FTHR002] = None

\* The readings the providers give now hold at least two OK, finite
\* sensors that disagree by more than 0.20.
OkFiniteDisagreement ==
    LET ok == SelectSeq(env.readings, OkFinite)
    IN /\ Len(ok) >= 2
       /\ MaxPosition(ok) - MinPosition(ok) > SensorConflictToleranceNorm

HasConflictRecord(c) ==
    c.fault_occurrence_ts[FTHR002] # None \/ c.fault_classified_ts[FTHR002] # None

-----------------------------------------------------------------------------
(* The cadence budget: the controller with sensors and a fault recorder,   *)
(* ticked at intervals of at most 0.25 s, with two healthy sensors that    *)
(* agree or disagree and the sensor provider assigned again.               *)
MaxBudgetTime == 18

BudgetDts == {50, 150, 250}

BudgetInputs == {Reading2(0, 20), Reading2(0, 100)}

InitBudget == \E r \in BudgetInputs : InitWith(TestConfig, TRUE, TRUE, r)

NextBudget ==
    \/ \E dt \in BudgetDts : Tick(dt, MaxBudgetTime)
    \/ \E r \in BudgetInputs : SetReadings(r)
    \/ SetPositionSensorsProvider

SpecBudget == InitBudget /\ [][NextBudget]_vars

\* C24: with consecutive ticks at most 0.25 s apart, whenever FTHR002 has
\* been classified its occurrence is on record too and the classification
\* timestamp minus the occurrence timestamp lies between 0 and 400 ms.
C24_ClassifiedWithin400ms ==
    ctl.fault_classified_ts[FTHR002] # None
      => /\ ctl.fault_occurrence_ts[FTHR002] # None
         /\ Val(ctl.fault_classified_ts[FTHR002]) - Val(ctl.fault_occurrence_ts[FTHR002]) >= 0
         /\ (Val(ctl.fault_classified_ts[FTHR002]) - Val(ctl.fault_occurrence_ts[FTHR002])) * 10
              <= FaultClassificationLatencySThresholdTenths * 1000

\* C24 witness: the conflict fault classified a full tick interval, 250 ms,
\* after its occurrence.
C24_Witness ==
    /\ ctl.state = FAULT
    /\ ctl.fault_classified_ts[FTHR002] # None
    /\ ctl.fault_occurrence_ts[FTHR002] # None
    /\ Val(ctl.fault_classified_ts[FTHR002]) - Val(ctl.fault_occurrence_ts[FTHR002]) = 250

\* C25, as stated: for every fault code the latency query answers None
\* while either timestamp is missing, and once both are recorded it answers
\* a value equal to classification timestamp minus occurrence timestamp in
\* milliseconds. The code answers with the comparison of that difference
\* against 0.4, a bool, which equals 1 or 0 as a number.
C25_AsStated ==
    \A code \in FaultCodes :
        LET occ == ctl.fault_occurrence_ts[code]
            cls == ctl.fault_classified_ts[code]
            ret == fault_classification_latency_ms_timeout(ctl, code)
        IN IF occ = None \/ cls = None
           THEN ret = PyNone
           ELSE ret.k # "none" /\ ret.v = Val(cls) - Val(occ)

\* C25 witness: FTHR002 has both timestamps, 250 ms apart, and the query
\* answers True.
C25_Witness ==
    /\ ctl.fault_occurrence_ts[FTHR002] # None
    /\ ctl.fault_classified_ts[FTHR002] # None
    /\ Val(ctl.fault_classified_ts[FTHR002]) - Val(ctl.fault_occurrence_ts[FTHR002]) = 250
    /\ fault_classification_latency_ms_timeout(ctl, FTHR002) = PyBool(TRUE)

-----------------------------------------------------------------------------
\* C26, as stated: the deploy actuation latency is undefined while no
\* deploy command has been accepted; it becomes defined only by a tick (the
\* first one after the accepted command at which the down actuator is
\* asserted); and once defined, no operation changes it. The second part
\* fails: a deploy command accepted while the stamp is still armed from an
\* earlier accepted command, one that no tick ever actuated, stamps the
\* actuation at the command itself and latches a latency of 0 ms.
C26_AsStated ==
    [][ /\ ctl'.deploy_cmd_ts = None => deploy_actuation_latency_ms(ctl') = None
        /\ (deploy_actuation_latency_ms(ctl) = None
              /\ deploy_actuation_latency_ms(ctl') # None) => IsUpdate
        /\ deploy_actuation_latency_ms(ctl) # None
              => deploy_actuation_latency_ms(ctl') = deploy_actuation_latency_ms(ctl)
      ]_vars

\* What does hold of the latency: it is undefined before any accepted
\* deploy command, once defined it never changes, and when it becomes
\* defined it is the time from the latest accepted deploy command to the
\* actuation stamp.
C26_LatencyLatchedOnce ==
    [][ /\ ctl'.deploy_cmd_ts = None => deploy_actuation_latency_ms(ctl') = None
        /\ (deploy_actuation_latency_ms(ctl) = None
              /\ deploy_actuation_latency_ms(ctl') # None)
             => deploy_actuation_latency_ms(ctl')
                  = Some(clock' - Val(ctl'.deploy_cmd_ts))
        /\ deploy_actuation_latency_ms(ctl) # None
              => deploy_actuation_latency_ms(ctl') = deploy_actuation_latency_ms(ctl)
      ]_vars

\* C26 witness: a deploy command has just been accepted after the clock
\* moved, and the actuation is stamped at the command and the latency
\* latched at 0 ms without any tick having asserted the down actuator.
C26_Witness ==
    /\ ev.op = "command_gear_down"
    /\ ev.en
    /\ ev.ret
    /\ clock > 0
    /\ ctl.deploy_cmd_ts = Some(clock)
    /\ ctl.deploy_actuation_ts = Some(clock)
    /\ deploy_actuation_latency_ms(ctl) = Some(0)

-----------------------------------------------------------------------------
(* Cadence monitoring: the controller without sensors, ticked at intervals *)
(* below, at and above both budgets and with a clock that can step back    *)
(* during the first 0.2 s, in steady states and during deploys and         *)
(* retractions.                                                            *)
MaxCadenceTime == 14
MaxBackwardTime == 2

CadenceDts == {100, 150, 250, 300}

NextCadence ==
    \/ \E dt \in CadenceDts : Tick(dt, MaxCadenceTime)
    \/ Tick(-100, MaxBackwardTime)
    \/ CommandGearDown(TRUE)
    \/ CommandGearUp(TRUE)

SpecCadence == Init /\ [][NextCadence]_vars

InTransition(c) == c.state \in {TRANSITIONING_DOWN, TRANSITIONING_UP}

\* C27: a tick with a previous tick on record and dt = this tick's clock
\* reading minus the previous tick's appends dt, once, to the transition
\* list iff the state at the start of the tick is TRANSITIONING_DOWN or
\* TRANSITIONING_UP and dt > 0.10 s, and to the steady list iff the state
\* is another one and dt > 0.25 s; otherwise (first tick, negative dt, dt
\* within or at the budget) the lists stay as they are; and no other
\* operation changes them.
C27_CadenceViolations ==
    [][ IF IsUpdate /\ ctl.last_update_ts # None
        THEN LET dt == clock' - Val(ctl.last_update_ts)
             IN /\ ctl'.transition_dt_violations_s =
                     IF InTransition(ctl) /\ dt > Pr002TransitionMaxDtMs
                     THEN ctl.transition_dt_violations_s \o <<dt>>
                     ELSE ctl.transition_dt_violations_s
                /\ ctl'.steady_dt_violations_s =
                     IF ~InTransition(ctl) /\ dt > Pr003SteadyMaxDtMs
                     THEN ctl.steady_dt_violations_s \o <<dt>>
                     ELSE ctl.steady_dt_violations_s
        ELSE /\ ctl'.transition_dt_violations_s = ctl.transition_dt_violations_s
             /\ ctl'.steady_dt_violations_s = ctl.steady_dt_violations_s
      ]_vars

\* C27 witness: a retraction tick 150 ms after the previous tick and a
\* steady tick 300 ms after the previous tick have each left one entry,
\* and the tick just made is a later one that added nothing.
C27_Witness ==
    /\ ev.op = "update"
    /\ ctl.transition_dt_violations_s = <<150>>
    /\ ctl.steady_dt_violations_s = <<300>>
    /\ ctl.state = UP_LOCKED
    /\ ctl.last_update_ts = Some(clock)
    /\ clock >= 600

-----------------------------------------------------------------------------
(* Configurations: the controller without sensors constructed from the     *)
(* shell's configuration, the tests' configurations and configurations     *)
(* with a zero or negative actuator speed, then commanded and ticked.      *)
(* Constructing a controller from a configuration whose deploy time cannot *)
(* be computed raises ZeroDivisionError and leaves no controller.          *)
MaxConfigTime == 32

Configurations ==
    { GearConfiguration(200, 50, 500, 300),     \* main.py: 1500 ms
      TestConfig,                               \* 100 ms
      GearConfiguration(100, 100, 100, 100),    \* test_retract.py: 300 ms
      GearConfiguration(0, 0, 100, 0),
      GearConfiguration(0, -100, 100, 0),
      GearConfiguration(100, -100, 100, 0) }

NoController(cfg) == [config |-> cfg]

Constructed == ev.op # "ZeroDivisionError"

InitConfig ==
    \E cfg \in Configurations :
        IF RaisesZeroDivisionError(cfg)
        THEN /\ clock = 0
             /\ ctl = NoController(cfg)
             /\ env = [altitude |-> Unwired, normal |-> "normal", power |-> "unwired",
                       readings |-> <<>>]
             /\ ev = [op |-> "ZeroDivisionError", en |-> FALSE, ret |-> FALSE]
        ELSE InitWith(cfg, FALSE, FALSE, <<>>)

NextConfig ==
    \/ Constructed /\ Tick(100, MaxConfigTime)
    \/ Constructed /\ CommandGearDown(TRUE)
    \/ Constructed /\ CommandGearUp(TRUE)

SpecConfig == InitConfig /\ [][NextConfig]_vars

\* The claimed deploy time pump + extension / (speed / 100) + lock equals
\* t, with the division cleared: t * speed = pump * speed + extension * 100
\* + lock * speed.
IsClaimedDeployTime(cfg, t) ==
    t * cfg.actuator_speed_mm_per_100ms
      = cfg.pump_latency_ms * cfg.actuator_speed_mm_per_100ms
          + cfg.extension_distance_mm * 100
          + cfg.lock_time_ms * cfg.actuator_speed_mm_per_100ms

\* C28: for every configuration with positive actuator speed the deploy
\* time computed is pump + extension / (speed / 100) + lock (1500 ms for
\* pump 200, speed 50, extension 500, lock 300), the controller holds this
\* value, and a tick in TRANSITIONING_DOWN or TRANSITIONING_UP with the
\* clock not behind the state entry completes the transition iff the time
\* since the state was entered has reached this value.
C28_DeployTimeFormula ==
    /\ [](Constructed /\ ctl.config.actuator_speed_mm_per_100ms > 0
            => /\ IsClaimedDeployTime(ctl.config, compute_deploy_time_ms(ctl.config))
               /\ IsClaimedDeployTime(ctl.config, ctl.deploy_time_ms)
               /\ ctl.config = GearConfiguration(200, 50, 500, 300)
                    => ctl.deploy_time_ms = 1500)
    /\ [][ (/\ Constructed
            /\ IsUpdate
            /\ ctl.config.actuator_speed_mm_per_100ms > 0
            /\ ctl.state \in {TRANSITIONING_DOWN, TRANSITIONING_UP}
            /\ clock' >= ctl.state_entered_at)
           => LET cfg == ctl.config
                  speed == cfg.actuator_speed_mm_per_100ms
                  reached ==
                      (clock' - ctl.state_entered_at) * speed
                        >= cfg.pump_latency_ms * speed
                             + cfg.extension_distance_mm * 100
                             + cfg.lock_time_ms * speed
              IN IF reached
                 THEN ctl'.state = (IF ctl.state = TRANSITIONING_DOWN
                                    THEN DOWN_LOCKED ELSE UP_LOCKED)
                 ELSE ctl'.state = ctl.state
         ]_vars

\* C28 witness: the shell's configuration, whose deploy has just completed
\* on the tick 1500 ms after the command.
C28_Witness ==
    /\ Constructed
    /\ ev.op = "update"
    /\ ctl.config = GearConfiguration(200, 50, 500, 300)
    /\ ctl.state = DOWN_LOCKED
    /\ ctl.state_entered_at = clock
    /\ ctl.deploy_cmd_ts # None
    /\ clock - Val(ctl.deploy_cmd_ts) = 1500

\* C29, as stated: a configuration with zero or negative actuator speed is
\* rejected when it is constructed, so no controller ticks with such a
\* configuration or with a zero or negative deploy time. Nothing checks the
\* speed: a zero speed fails only when a controller is constructed from the
\* configuration, and a negative speed is accepted throughout.
C29_AsStated ==
    (Constructed /\ ev.op = "update")
      => /\ ctl.config.actuator_speed_mm_per_100ms > 0
         /\ ctl.deploy_time_ms > 0

\* C29 witness: a controller built from a configuration with negative
\* speed has completed a deploy, timed against a deploy time of -100 ms.
C29_Witness ==
    /\ Constructed
    /\ ev.op = "update"
    /\ ctl.config.actuator_speed_mm_per_100ms < 0
    /\ ctl.deploy_time_ms = -100
    /\ ctl.state = DOWN_LOCKED
    /\ ctl.state_entered_at = clock

-----------------------------------------------------------------------------
(* Tick ordering: the controller with sensors that validate "up" and then  *)
(* disagree, with or without a failed third sensor, while the power and    *)
(* altitude inputs change between ticks, so that the tick that latches the *)
(* conflict fault is also one on which the interlocks would act.           *)
MaxOrderingTime == 25

OrderingInputs ==
    { Reading2(0, 20),
      Reading2(0, 100),
      <<PositionSensorReading(OK, Fin(0)), PositionSensorReading(OK, Fin(50)),
        PositionSensorReading(FAILED, Fin(0))>> }

InitOrdering == \E r \in OrderingInputs : InitWith(TestConfig, TRUE, FALSE, r)

NextOrdering ==
    \/ Tick(250, MaxOrderingTime)
    \/ \E r \in OrderingInputs : SetReadings(r)
    \/ \E p \in {"present", "absent"} : SetPrimaryPower(p)
    \/ \E a \in {Unwired, Fin(999)} : SetAltitude(a)

SpecOrdering == InitOrdering /\ [][NextOrdering]_vars

\* C30: on the tick that newly latches the sensor-conflict fault the state
\* after the tick is FAULT, neither the power-loss nor the auto-deploy
\* interlock issues a deploy command, no low-altitude warning is emitted,
\* and the auto-deploy latch, the warning latch, the power-loss latch, the
\* position estimate and the maintenance-fault set are as before the tick,
\* whatever the power and altitude inputs are.
C30_FaultTickSuppressesInterlocks ==
    [][ (IsUpdate /\ ~ctl.sensor_conflict_fault_latched
                  /\ ctl'.sensor_conflict_fault_latched)
          => /\ ctl'.state = FAULT
             /\ ctl'.issued = {}
             /\ ~ctl'.warned
             /\ ctl'.auto_deploy_latched = ctl.auto_deploy_latched
             /\ ctl'.low_alt_warning_active = ctl.low_alt_warning_active
             /\ ctl'.sr004_power_loss_latched = ctl.sr004_power_loss_latched
             /\ ctl'.position_estimate_norm = ctl.position_estimate_norm
             /\ ctl'.maintenance_fault_codes = ctl.maintenance_fault_codes
             /\ ctl'.maintenance_fault_active = ctl.maintenance_fault_active
      ]_vars

\* C30 witness: the fault has just been latched on a tick with power absent,
\* altitude 999 ft, normal conditions and a failed sensor among the
\* readings, from UP_LOCKED with every interlock latch clear and no
\* maintenance fault: each later step of the tick would have acted.
C30_Witness ==
    /\ ev.op = "update"
    /\ ctl.state = FAULT
    /\ ctl.state_entered_at = clock
    /\ ctl.sensor_conflict_fault_latched
    /\ env.power = "absent"
    /\ env.altitude = Fin(999)
    /\ env.normal = "normal"
    /\ Len(env.readings) = 3
    /\ ctl.reset_validated
    /\ ~ctl.sr004_power_loss_latched
    /\ ~ctl.auto_deploy_latched
    /\ ~ctl.low_alt_warning_active
    /\ ctl.maintenance_fault_codes = {}
    /\ ~DownAsserted(ctl)

-----------------------------------------------------------------------------
\* C31, as stated: whatever the operation, a step from TRANSITIONING_DOWN
\* to DOWN_LOCKED or from TRANSITIONING_UP to UP_LOCKED happens only when
\* the time since the transitioning state was entered has reached the
\* deploy time. A command call with enable false completes the transition
\* at once, whatever the elapsed time.
C31_AsStated ==
    [][ ((ctl.state = TRANSITIONING_DOWN /\ ctl'.state = DOWN_LOCKED)
           \/ (ctl.state = TRANSITIONING_UP /\ ctl'.state = UP_LOCKED))
          => clock' - ctl.state_entered_at >= ctl.deploy_time_ms
      ]_vars

\* What does hold: a tick completes a transition only once the deploy time
\* has elapsed.
C31_TicksCompleteOnlyAfterDeployTime ==
    [][ (IsUpdate
          /\ ((ctl.state = TRANSITIONING_DOWN /\ ctl'.state = DOWN_LOCKED)
                \/ (ctl.state = TRANSITIONING_UP /\ ctl'.state = UP_LOCKED)))
          => clock' - ctl.state_entered_at >= ctl.deploy_time_ms
      ]_vars

\* C31 witness: command_gear_down(False) has just reported success and the
\* machine is DOWN_LOCKED at the very clock reading at which the deploy
\* command was accepted.
C31_Witness ==
    /\ ev.op = "command_gear_down"
    /\ ~ev.en
    /\ ev.ret
    /\ ctl.state = DOWN_LOCKED
    /\ ctl.state_entered_at = clock
    /\ ctl.deploy_cmd_ts = Some(clock)
    /\ ctl.deploy_time_ms > 0

-----------------------------------------------------------------------------
(* Progress of transitions: the controller without sensors, commanded by   *)
(* the pilot while weight-on-wheels, altitude and power change, under a    *)
(* harness that keeps ticking for as long as the modelled window lasts.    *)
MaxLiveTime == 6

LiveTick == Tick(50, MaxLiveTime)

NextLive ==
    \/ LiveTick
    \/ CommandGearDown(TRUE)
    \/ CommandGearUp(TRUE)
    \/ \E wow \in BOOLEAN : SetWeightOnWheels(wow)
    \/ \E a \in {Unwired, Fin(999)} : SetAltitude(a)
    \/ \E p \in {"present", "absent"} : SetPrimaryPower(p)

\* What a step of LiveTick looks like from outside: the clock moves on by
\* one period and update() is the operation performed. It is enabled
\* exactly when LiveTick is, and every such step of NextLive is a LiveTick
\* step.
TickStep ==
    /\ clock + 50 <= MaxLiveTime * 50
    /\ clock' = clock + 50
    /\ ev' = Event("update", FALSE, FALSE)

\* The harness loop calls update() once per period for as long as it runs.
SpecLive == Init /\ [][NextLive]_vars /\ WF_clock(TickStep)

\* The transition was entered early enough for its completion to fall
\* inside the modelled window.
InWindow == ctl.state_entered_at + ctl.deploy_time_ms <= MaxLiveTime * 50

\* C32: with ticks kept coming and no sensor fault or rewire, a deploy
\* under way leads to DOWN_LOCKED and a retract under way leads to
\* UP_LOCKED, whatever the weight-on-wheels, altitude and power inputs do
\* meanwhile; and until the locked state is reached every step leaves the
\* machine in the same transitioning state.
C32_TransitionsComplete ==
    /\ (ctl.state = TRANSITIONING_DOWN /\ InWindow) ~> (ctl.state = DOWN_LOCKED)
    /\ (ctl.state = TRANSITIONING_UP /\ InWindow) ~> (ctl.state = UP_LOCKED)
    /\ [][ /\ ctl.state = TRANSITIONING_DOWN
              => ctl'.state \in {TRANSITIONING_DOWN, DOWN_LOCKED}
           /\ ctl.state = TRANSITIONING_UP
              => ctl'.state \in {TRANSITIONING_UP, UP_LOCKED}
         ]_vars

\* C32 witness: a retract has completed on a tick with power absent, low
\* altitude and weight on wheels, the interlocks' deploy commands having
\* been rejected during the retraction.
C32_Witness ==
    /\ ev.op = "update"
    /\ ctl.state = UP_LOCKED
    /\ ctl.state_entered_at = clock
    /\ clock > 0
    /\ env.power = "absent"
    /\ env.altitude = Fin(999)
    /\ ctl.weight_on_wheels
    /\ ctl.sr004_power_loss_latched

-----------------------------------------------------------------------------
(* Interrupted conflicts: the controller constructed with or without a     *)
(* sensor provider, with readings that agree, disagree, disagree only      *)
(* through a failed sensor, or are missing, and the provider assigned      *)
(* later.                                                                  *)
ContinuityInputs ==
    { Reading2(0, 20),
      Reading2(0, 100),
      <<PositionSensorReading(FAILED, Fin(0)), PositionSensorReading(OK, Fin(100))>>,
      <<>> }

InitContinuity ==
    \E has_sensors \in BOOLEAN : InitWith(TestConfig, has_sensors, FALSE, Reading2(0, 20))

NextContinuity ==
    \/ Tick(250, MaxSinkTime)
    \/ \E r \in ContinuityInputs : SetReadings(r)
    \/ SetPositionSensorsProvider

SpecContinuity == InitContinuity /\ [][NextContinuity]_vars

\* C33: a tick that does not find a provider giving at least two OK,
\* finite readings more than 0.20 apart leaves the persistence timer
\* unset; a tick that finds such a conflict with the timer unset starts the
\* timer at that tick and enters no FAULT; and the conflict fault is
\* latched only on a tick that finds the timer running for more than
\* 0.50 s, so conflicts interrupted at or before 0.50 s each never lead to
\* FAULT.
C33_OnlyContinuousConflictCounts ==
    [][ IsUpdate =>
          /\ ~(ctl.position_sensors_provider /\ OkFiniteDisagreement)
               => /\ ctl'.sensor_conflict_started_at = None
                  /\ ctl'.sensor_conflict_fault_latched = ctl.sensor_conflict_fault_latched
                  /\ ctl'.state = FAULT => ctl.state = FAULT
          /\ (ctl.position_sensors_provider /\ OkFiniteDisagreement
                /\ ctl.sensor_conflict_started_at = None)
               => /\ ctl'.sensor_conflict_started_at = Some(clock')
                  /\ ctl'.sensor_conflict_fault_latched = ctl.sensor_conflict_fault_latched
                  /\ ctl'.state = FAULT => ctl.state = FAULT
          /\ (~ctl.sensor_conflict_fault_latched /\ ctl'.sensor_conflict_fault_latched)
               => /\ ctl.sensor_conflict_started_at # None
                  /\ clock' - Val(ctl.sensor_conflict_started_at)
                       > FaultClassificationLatencyThresholdMs
      ]_vars

\* C33 witness: a conflict has now lasted exactly 0.50 s on a timer that
\* was started after the machine had been validated UP_LOCKED and after
\* 1.0 s of run time, and the machine has never been in FAULT.
C33_Witness ==
    /\ ev.op = "update"
    /\ ctl.state = UP_LOCKED
    /\ ~ctl.sensor_conflict_fault_latched
    /\ ctl.sensor_conflict_started_at # None
    /\ Val(ctl.sensor_conflict_started_at) >= 1000
    /\ clock - Val(ctl.sensor_conflict_started_at) = FaultClassificationLatencyThresholdMs
    /\ ctl.fault_classified_ts[FTHR002] = None

-----------------------------------------------------------------------------
(* Boot and rewire: the controller constructed with or without a sensor    *)
(* provider, commanded by the pilot, with sensors that agree on "up" or    *)
(* disagree, and the provider assigned in whatever state the machine is.   *)
RewireInputs == {Reading2(0, 20), Reading2(0, 100)}

InitRewire ==
    \E has_sensors \in BOOLEAN : InitWith(TestConfig, has_sensors, FALSE, Reading2(0, 20))

NextRewire ==
    \/ Tick(250, MaxOrderingTime)
    \/ CommandGearDown(TRUE)
    \/ CommandGearUp(TRUE)
    \/ \E r \in RewireInputs : SetReadings(r)
    \/ SetPositionSensorsProvider

SpecRewire == InitRewire /\ [][NextRewire]_vars

\* C34: a controller constructed without a position-sensor provider starts
\* in UP_LOCKED and one constructed with a provider starts in RESET; and
\* assigning a provider, in whatever state, leaves the machine in RESET
\* with the state-entry time restamped, the conflict persistence timer
\* unset and the conflict-fault latch clear.
C34_BootAndRewirePolicy ==
    /\ [](ev.op = "init"
            => ctl.state = (IF ctl.position_sensors_provider THEN RESET ELSE UP_LOCKED))
    /\ [][ ev'.op = "set_position_sensors_provider"
             => /\ ctl'.position_sensors_provider
                /\ ctl'.state = RESET
                /\ ctl'.state_entered_at = clock'
                /\ ctl'.sensor_conflict_started_at = None
                /\ ~ctl'.sensor_conflict_fault_latched
         ]_vars

\* C34 witness: the provider has been assigned at the clock reading of the
\* tick that latched the conflict fault, that is with the machine in
\* FAULT, and the machine is in RESET with the latch clear.
C34_Witness ==
    /\ ev.op = "set_position_sensors_provider"
    /\ ctl.fault_classified_ts[FTHR002] = Some(clock)
    /\ ctl.state = RESET
    /\ ctl.state_entered_at = clock
    /\ ~ctl.sensor_conflict_fault_latched
    /\ ctl.sensor_conflict_started_at = None

-----------------------------------------------------------------------------
(* The shipped harness of main.py: control_loop runs update() every 100 ms *)
(* in a daemon thread while command_loop calls the pilot's commands from    *)
(* the main thread. No lock guards the controller, so the steps of the two *)
(* threads interleave. ev carries the position of each thread.             *)

MaxRaceTime == 8

\* now is the clock reading taken by the pilot's call in progress.
RaceEvent(op, en, ret, control, command, now) ==
    [op |-> op, en |-> en, ret |-> ret, control |-> control, command |-> command,
     now |-> now]

\* _apply_sr001_auto_deploy reaches its call of command_gear_down(True).
AutoDeployCalls(c, e) ==
    /\ e.altitude # Unwired /\ e.normal # "unwired"
    /\ e.altitude # NoReading /\ isfinite(e.altitude)
    /\ e.normal = "normal"
    /\ ~AutoDeployAltitudeReached(e.altitude)
    /\ c.state \notin {DOWN_LOCKED, TRANSITIONING_DOWN}
    /\ ~c.auto_deploy_latched

\* update() from its first line to the call of _apply_sr001_auto_deploy.
update_until_auto_deploy(c, now, e) ==
    LET c1 == check_update_cadence(c, now)
        c2 == apply_fthr002_conflicting_position_sensors_fault(c1, now, e)
    IN IF c2.state \in {FAULT, ABNORMAL} THEN Result(DeassertBoth(c2, now), FALSE)
       ELSE
         LET c3 == apply_sr004_power_loss_default_down(c2, now, e)
             f == apply_fthr001_single_sensor_failure_handling(c3, now, e)
             c4 == [f.c EXCEPT !.position_estimate_norm = f.est]
         IN Result(deliver_low_altitude_warning(c4, e), TRUE)

\* update() after _apply_sr001_auto_deploy has returned.
update_after_auto_deploy(c, now, e) ==
    IF c.state \in {FAULT, ABNORMAL} THEN DeassertBoth(c, now)
    ELSE StateLogic(c, now, e)

\* control_loop: the sleep ends and update() runs up to the interlock's
\* call of command_gear_down(True), or to its end when no call is made.
ControlUpdateBegin ==
    /\ ev.control = "sleep"
    /\ clock + 100 <= MaxRaceTime * 50
    /\ clock' = clock + 100
    /\ LET r == update_until_auto_deploy(BeginOp(ctl), clock', env)
       IN IF ~r.ret
          THEN /\ ctl' = r.c
               /\ ev' = RaceEvent("update", FALSE, FALSE, "sleep", ev.command, ev.now)
          ELSE IF AutoDeployCalls(r.c, env)
          THEN /\ ctl' = [r.c EXCEPT !.issued = @ \cup {"sr001"}]
               /\ ev' = RaceEvent("update", FALSE, FALSE, "command_gear_down", ev.command, ev.now)
          ELSE /\ ctl' = update_after_auto_deploy(
                             apply_sr001_auto_deploy(r.c, clock', env), clock', env)
               /\ ev' = RaceEvent("update", FALSE, FALSE, "sleep", ev.command, ev.now)
    /\ UNCHANGED env

\* control_loop inside command_gear_down(True): the three state checks.
\* A rejected call returns and update() runs to its end.
ControlDeployCheck ==
    /\ ev.control = "command_gear_down"
    /\ IF ctl.state = UP_LOCKED
       THEN /\ ctl' = ctl
            /\ ev' = RaceEvent("update", FALSE, FALSE, "accepted", ev.command, ev.now)
       ELSE /\ ctl' = update_after_auto_deploy(ctl, clock, env)
            /\ ev' = RaceEvent("update", FALSE, FALSE, "sleep", ev.command, ev.now)
    /\ UNCHANGED <<clock, env>>

\* control_loop inside command_gear_down(True), past the checks: the
\* accepted branch, the latch of the interlock and the rest of update().
ControlDeployAccept ==
    /\ ev.control = "accepted"
    /\ ctl' = update_after_auto_deploy(
                  [StartDeploy(ctl, clock) EXCEPT !.auto_deploy_latched = TRUE],
                  clock, env)
    /\ ev' = RaceEvent("update", FALSE, TRUE, "sleep", ev.command, ev.now)
    /\ UNCHANGED <<clock, env>>

\* command_loop, "d": command_gear_down(True) up to the three state checks.
PilotDeployCheck ==
    /\ ev.command = "input"
    /\ ctl' = ctl
    /\ ev' = RaceEvent("command_gear_down", TRUE, FALSE, ev.control,
                       IF ctl.state = UP_LOCKED THEN "accepted" ELSE "input",
                       clock)
    /\ UNCHANGED <<clock, env>>

\* command_loop, "d": the accepted branch of command_gear_down(True).
PilotDeployAccept ==
    /\ ev.command = "accepted"
    /\ ctl' = StartDeploy(ctl, ev.now)
    /\ ev' = RaceEvent("command_gear_down", TRUE, TRUE, ev.control, "input", ev.now)
    /\ UNCHANGED <<clock, env>>

\* command_loop, "u": command_gear_up(True).
PilotRetract ==
    /\ ev.command = "input"
    /\ LET r == command_gear_up(ctl, TRUE, clock, env)
       IN /\ ctl' = r.c
          /\ ev' = RaceEvent("command_gear_up", TRUE, r.ret, ev.control, "input", clock)
    /\ UNCHANGED <<clock, env>>

\* control_loop: sim.update() moves the simulated altitude before update().
SimUpdate(a) ==
    /\ ev.control = "sleep"
    /\ env.altitude # a
    /\ env' = [env EXCEPT !.altitude = a]
    /\ ev' = RaceEvent("input", FALSE, FALSE, ev.control, ev.command, ev.now)
    /\ UNCHANGED <<ctl, clock>>

InitRace ==
    /\ clock = 0
    /\ ctl = NewController(TestConfig, FALSE, FALSE, 0)
    /\ env = [altitude |-> Fin(1000), normal |-> "normal", power |-> "unwired",
              readings |-> <<>>]
    /\ ev = RaceEvent("init", FALSE, FALSE, "sleep", "input", 0)

NextRace ==
    \/ ControlUpdateBegin
    \/ ControlDeployCheck
    \/ ControlDeployAccept
    \/ PilotDeployCheck
    \/ PilotDeployAccept
    \/ PilotRetract
    \/ \E a \in {Fin(999), Fin(1000)} : SimUpdate(a)

SpecRace == InitRace /\ [][NextRace]_vars

\* The steps of the control thread, run without interruption, are update().
C35_StepsComposeToUpdate ==
    [][ (ev.control = "sleep" /\ clock' # clock /\ ev'.control = "sleep")
          => ctl' = update(BeginOp(ctl), clock', env) ]_vars

\* C35 (concurrency): in the shipped harness no step of a pilot command
\* executes while a tick is in progress, and a deploy command, the pilot's
\* or the interlock's, is accepted only by a step that starts in UP_LOCKED,
\* so that one stay in UP_LOCKED accepts exactly one of two racing deploys.
C35_AsStated ==
    [][ /\ ev'.op \in {"command_gear_down", "command_gear_up"}
             => ev.control = "sleep"
        /\ (ev'.ret /\ ev'.op \in {"update", "command_gear_down"})
             => ctl.state = UP_LOCKED ]_vars

\* The second half alone: every accepted deploy starts in UP_LOCKED.
C35_ExactlyOneAccepted ==
    [][ (ev'.ret /\ ev'.op \in {"update", "command_gear_down"})
          => ctl.state = UP_LOCKED ]_vars

\* Both threads are past the UP_LOCKED check of command_gear_down(True).
C35_Witness == ev.control = "accepted" /\ ev.command = "accepted"

-----------------------------------------------------------------------------
(* The request flags: the controller with or without position sensors,     *)
(* ticks, pilot commands with either enable value, and changing readings,  *)
(* power, altitude and weight-on-wheels inputs.                            *)

QueueInputs == { Reading2(0, 20), Reading2(0, 100) }

InitQueue ==
    \E has_sensors \in BOOLEAN :
        InitWith(TestConfig, has_sensors, FALSE, Reading2(0, 20))

NextQueue ==
    \/ Tick(250, MaxOrderingTime)
    \/ CommandGearDown(TRUE)
    \/ CommandGearUp(TRUE)
    \/ \E r \in QueueInputs : SetReadings(r)
    \/ \E p \in {"present", "absent"} : SetPrimaryPower(p)
    \/ \E a \in {Unwired, Fin(999)} : SetAltitude(a)

SpecQueue == InitQueue /\ [][NextQueue]_vars

ActuatorCommandsUnchanged ==
    /\ ctl'.last_gear_down_cmd = ctl.last_gear_down_cmd
    /\ ctl'.last_gear_up_cmd = ctl.last_gear_up_cmd

\* C36 as stated: the deploy-request and retract-request flags are false in
\* every reachable state; a tick that starts in UP_LOCKED or DOWN_LOCKED
\* starts a transition only when the auto-deploy or the power-loss interlock
\* issues its command on that tick, and with neither interlock firing the
\* tick leaves the state unchanged and issues no actuator command.
C36_AsStated ==
    /\ [](~ctl.deploy_requested /\ ~ctl.retract_requested)
    /\ [][ (IsUpdate /\ ctl.state \in {UP_LOCKED, DOWN_LOCKED})
             => /\ ctl'.state \in {TRANSITIONING_DOWN, TRANSITIONING_UP}
                     => ctl'.issued # {}
                /\ ctl'.issued = {}
                     => ctl'.state = ctl.state /\ ActuatorCommandsUnchanged ]_vars

\* C36 (invariants), amended: as above, except that a tick on which the
\* sensor-conflict detector enters FAULT changes the state and de-asserts
\* both actuators; every other tick in UP_LOCKED or DOWN_LOCKED with
\* neither interlock firing leaves the state and the actuator outputs alone.
C36_NoCommandQueued ==
    /\ [](~ctl.deploy_requested /\ ~ctl.retract_requested)
    /\ [][ (IsUpdate /\ ctl.state \in {UP_LOCKED, DOWN_LOCKED})
             => /\ ctl'.state \in {TRANSITIONING_DOWN, TRANSITIONING_UP}
                     => ctl'.issued # {}
                /\ (ctl'.issued = {} /\ ctl'.state # FAULT)
                     => ctl'.state = ctl.state /\ ActuatorCommandsUnchanged
                /\ (ctl'.issued = {} /\ ctl'.state = FAULT)
                     => /\ ctl'.sensor_conflict_fault_latched
                        /\ ctl'.last_gear_down_cmd = Some(FALSE)
                        /\ ctl'.last_gear_up_cmd = Some(FALSE) ]_vars

\* An idle tick in UP_LOCKED after the gear has been cycled, with pilot
\* commands rejected on the way: nothing is pending, nothing is issued.
C36_Witness ==
    /\ ev.op = "update"
    /\ ctl.state = UP_LOCKED
    /\ ctl.issued = {}
    /\ ctl.last_gear_up_cmd = Some(FALSE)
    /\ ctl.last_gear_down_cmd = Some(FALSE)

-----------------------------------------------------------------------------
(* The state machine's moves: the controller with position sensors and a   *)
(* deploy time of 100 ms, started over either locked position, under       *)
(* ticks, pilot commands with                                              *)
(* either enable value, and changing readings, power and altitude inputs.  *)

MaxMoveTime == 20

MoveInputs == { Reading2(0, 20), Reading2(0, 100) }

InitMoves ==
    \E r \in {Reading2(0, 20), Reading2(100, 100)} :
        InitWith(TestConfig, TRUE, FALSE, r)

NextMoves ==
    \/ Tick(250, MaxMoveTime)
    \/ \E enabled \in BOOLEAN : CommandGearDown(enabled)
    \/ \E enabled \in BOOLEAN : CommandGearUp(enabled)
    \/ \E r \in MoveInputs : SetReadings(r)
    \/ \E p \in {"present", "absent"} : SetPrimaryPower(p)
    \/ SetAltitude(Fin(999))

SpecMoves == InitMoves /\ [][NextMoves]_vars

ListedStateChanges ==
    { <<RESET, UP_LOCKED>>, <<RESET, DOWN_LOCKED>>,
      <<UP_LOCKED, TRANSITIONING_DOWN>>, <<TRANSITIONING_DOWN, DOWN_LOCKED>>,
      <<DOWN_LOCKED, TRANSITIONING_UP>>, <<TRANSITIONING_UP, UP_LOCKED>> }

\* C37 (safety): with a positive deploy time and no sensor rewire, a tick or
\* a command call (either enable value) that changes the state makes one of
\* the moves RESET to UP_LOCKED or DOWN_LOCKED, UP_LOCKED to
\* TRANSITIONING_DOWN, TRANSITIONING_DOWN to DOWN_LOCKED, DOWN_LOCKED to
\* TRANSITIONING_UP, TRANSITIONING_UP to UP_LOCKED, or enters FAULT; a
\* transition in progress is left only for its own locked state or FAULT,
\* and no step enters RESET or ABNORMAL.
C37_OnlyListedStateChanges ==
    [][ (/\ ev'.op \in {"update", "command_gear_down", "command_gear_up"}
         /\ ctl.deploy_time_ms > 0
         /\ ctl'.state # ctl.state)
          => /\ <<ctl.state, ctl'.state>> \in ListedStateChanges
                  \/ ctl'.state = FAULT
             /\ ctl'.state \notin {RESET, ABNORMAL} ]_vars

\* A retract commanded while the deploy is in progress has been rejected:
\* the transition is not reversed.
C37_Witness ==
    /\ ev.op = "command_gear_up"
    /\ ev.en
    /\ ~ev.ret
    /\ ctl.state = TRANSITIONING_DOWN
    /\ ctl.position_sensors_provider

-----------------------------------------------------------------------------
(* The actuator outputs: the controller with position sensors over the     *)
(* retracted gear, long enough for a conflict fault to arrive while a      *)
(* commanded transition is in progress.                                    *)

InitActuators == InitWith(TestConfig, TRUE, FALSE, Reading2(0, 20))

NextActuators ==
    \/ Tick(250, MaxOrderingTime)
    \/ \E enabled \in BOOLEAN : CommandGearDown(enabled)
    \/ \E enabled \in BOOLEAN : CommandGearUp(enabled)
    \/ \E r \in MoveInputs : SetReadings(r)
    \/ SetPrimaryPower("absent")

SpecActuators == InitActuators /\ [][NextActuators]_vars

\* C38 (invariants): over ticks and command calls with either enable value,
\* from a freshly constructed controller, the down actuator output is
\* asserted only in TRANSITIONING_DOWN and the up actuator output only in
\* TRANSITIONING_UP.
C38_ActuatorsAssertedOnlyInTransition ==
    /\ ctl.last_gear_down_cmd = Some(TRUE) => ctl.state = TRANSITIONING_DOWN
    /\ ctl.last_gear_up_cmd = Some(TRUE) => ctl.state = TRANSITIONING_UP

\* The conflict fault has arrived on a tick during a deploy: the down
\* output, asserted by the command, is off at the end of the tick.
C38_Witness ==
    /\ ev.op = "update"
    /\ ctl.state = FAULT
    /\ ctl.deploy_cmd_ts = Some(clock - 250)
    /\ ctl.last_gear_down_cmd = Some(FALSE)

\* C39 (invariants): the down and the up actuator outputs are never asserted
\* at the same time, in any state reachable by ticks, command calls, input
\* changes and sensor-provider rewires.
C39_AsStated ==
    ~(ctl.last_gear_down_cmd = Some(TRUE) /\ ctl.last_gear_up_cmd = Some(TRUE))

\* A rewire has forced RESET while the down output is still asserted.
C39_Witness ==
    /\ ev.op = "set_position_sensors_provider"
    /\ ctl.state = RESET
    /\ ctl.last_gear_down_cmd = Some(TRUE)

-----------------------------------------------------------------------------
(* The retried auto-deploy: the controller with position sensors, started  *)
(* over either locked position, with the altitude input wired, under       *)
(* ticks, pilot deploy and retract commands and changing readings.         *)

InitRetry ==
    \E r \in {Reading2(0, 20), Reading2(100, 100)} :
        InitWith(TestConfig, TRUE, FALSE, r)

NextRetry ==
    \/ Tick(250, MaxOrderingTime)
    \/ CommandGearDown(TRUE)
    \/ CommandGearUp(TRUE)
    \/ \E r \in MoveInputs : SetReadings(r)
    \/ \E a \in {Fin(999), Fin(1000)} : SetAltitude(a)

SpecRetry == InitRetry /\ [][NextRetry]_vars

\* The altitude is finite and below 1000 ft, conditions are normal and the
\* auto-deploy latch is clear.
AutoDeployDue ==
    /\ env.altitude # Unwired /\ env.altitude # NoReading
    /\ isfinite(env.altitude)
    /\ ~AutoDeployAltitudeReached(env.altitude)
    /\ env.normal = "normal"
    /\ ~ctl.auto_deploy_latched

\* The latch is set only by a tick whose auto-deploy command was accepted.
LatchSetOnlyOnAcceptance ==
    (~ctl.auto_deploy_latched /\ ctl'.auto_deploy_latched)
        => /\ IsUpdate
           /\ "sr001" \in ctl'.issued
           /\ ctl.state = UP_LOCKED
           /\ ctl'.state = TRANSITIONING_DOWN

\* C40 as stated: the latch is set only when the interlock's deploy command
\* is accepted; and when the machine has arrived in UP_LOCKED by a tick,
\* out of TRANSITIONING_UP or RESET, with the altitude finite and below
\* 1000 ft, conditions normal and the latch clear all along, the next tick,
\* the first that starts in UP_LOCKED, ends in TRANSITIONING_DOWN.
C40_AsStated ==
    [][ /\ LatchSetOnlyOnAcceptance
        /\ (/\ IsUpdate
            /\ ev.op = "update"
            /\ ctl.state = UP_LOCKED
            /\ ctl.state_entered_at = clock
            /\ AutoDeployDue)
             => ctl'.state = TRANSITIONING_DOWN ]_vars

\* C40 (temporal), amended: the latch is set only when the interlock's
\* deploy command is accepted; a tick in TRANSITIONING_UP or RESET with the
\* altitude finite and below 1000 ft, conditions normal and the latch clear
\* issues the command and leaves the latch clear; and every tick that
\* starts in UP_LOCKED under those conditions ends in TRANSITIONING_DOWN,
\* unless the sensor-conflict fault is entered on that tick, which ends in
\* FAULT with no command issued.
C40_AutoDeployRetriedUntilAccepted ==
    [][ /\ LatchSetOnlyOnAcceptance
        /\ (/\ IsUpdate
            /\ ctl.state \in {TRANSITIONING_UP, RESET}
            /\ AutoDeployDue
            /\ ctl'.state # FAULT)
             => "sr001" \in ctl'.issued /\ ~ctl'.auto_deploy_latched
        /\ (IsUpdate /\ ctl.state = UP_LOCKED /\ AutoDeployDue)
             => \/ /\ ctl'.state = TRANSITIONING_DOWN
                   /\ "sr001" \in ctl'.issued
                   /\ ctl'.auto_deploy_latched
                \/ /\ ctl'.state = FAULT
                   /\ ctl'.sensor_conflict_fault_latched
                   /\ ctl'.issued = {} ]_vars

\* The interlock's command, rejected during the retract, has been accepted
\* by the tick that started in UP_LOCKED.
C40_Witness ==
    /\ ev.op = "update"
    /\ ctl.state = TRANSITIONING_DOWN
    /\ ctl.state_entered_at = clock
    /\ "sr001" \in ctl.issued
    /\ ctl.auto_deploy_latched
    /\ ctl.last_gear_up_cmd = Some(FALSE)

====
